---- MODULE Spec2Model ----
(***************************************************************************)
(* A model of the streaming DEFLATE compressor of this repository          *)
(* (deflate.c, stored in src/cmake/modules/RootFeatures.cmake from line    *)
(* 174 on): window buffer, position index, match finder, tokenizers,       *)
(* output staging and the stream controller.                               *)
(*                                                                         *)
(* The z_stream and its deflate_state are one record, `strm`.  C arrays    *)
(* are indexed from 0; the sequence strm.window holds window[i] at i+1.    *)
(* head[] is a function defined on the non-NIL entries only (the array is  *)
(* zeroed by CLEAR_HASH), prev[] a function defined on the entries that    *)
(* were ever written (the array is never initialised).                     *)
(*                                                                         *)
(* The entropy coder (trees.c) and the checksums are not part of the       *)
(* sources at hand: they are modelled from the design document as a coder  *)
(* that turns every token into one output unit.                            *)
(***************************************************************************)
EXTENDS Integers, Sequences, FiniteSets, TLC

(* ------------------------------------------------------------------ *)
(* Program constants                                                  *)
(* ------------------------------------------------------------------ *)
NIL == 0
ACTUAL_MIN_MATCH == 4
MIN_MATCH == 3
MAX_MATCH == 258
MIN_LOOKAHEAD == MAX_MATCH + MIN_MATCH + 1
WIN_INIT == MAX_MATCH

Z_NO_FLUSH == 0
Z_PARTIAL_FLUSH == 1
Z_SYNC_FLUSH == 2
Z_FULL_FLUSH == 3
Z_FINISH == 4
Z_BLOCK == 5

Z_OK == 0
Z_STREAM_END == 1
Z_STREAM_ERROR == 0 - 2
Z_DATA_ERROR == 0 - 3
Z_MEM_ERROR == 0 - 4
Z_BUF_ERROR == 0 - 5

Z_FILTERED == 1
Z_HUFFMAN_ONLY == 2
Z_RLE == 3
Z_FIXED == 4
Z_DEFAULT_STRATEGY == 0

Z_DEFLATED == 8

Z_NULL == 0
PRESET_DICT == 32
OS_CODE == 3

(* ------------------------------------------------------------------ *)
(* Bounds of the model                                                *)
(* ------------------------------------------------------------------ *)
\* longest input of the exhaustive family (all strings over Alphabet)
MaxLen == 5
\* number of process / setParams calls in one session
MaxCalls == 4

Alphabet == {0, 97}

(* ------------------------------------------------------------------ *)
(* Arithmetic helpers                                                 *)
(* ------------------------------------------------------------------ *)
Min(a, b) == IF a < b THEN a ELSE b
Max(a, b) == IF a > b THEN a ELSE b

Pow2(n) == 2 ^ n

\* bitwise exclusive or of two naturals below 2^n
RECURSIVE Xor(_, _, _)
Xor(a, b, n) ==
    IF n = 0 THEN 0
    ELSE IF n = 1 THEN ((a % 2) + (b % 2)) % 2
    ELSE Xor(a % Pow2(n \div 2), b % Pow2(n \div 2), n \div 2)
         + Pow2(n \div 2) * Xor(a \div Pow2(n \div 2), b \div Pow2(n \div 2),
                                n - (n \div 2))

\* sum of q[lo..hi]
RECURSIVE SumRange(_, _, _)
SumRange(q, lo, hi) ==
    IF lo > hi THEN 0
    ELSE IF lo = hi THEN q[lo]
    ELSE SumRange(q, lo, (lo + hi) \div 2) + SumRange(q, ((lo + hi) \div 2) + 1, hi)

SumSeq(q) == SumRange(q, 1, Len(q))

\* a loop: Body is applied until Done holds, at most n times
RECURSIVE Repeat(_, _, _, _)
Repeat(Body(_), Done(_), z, n) ==
    IF n <= 0 \/ Done(z) THEN z
    ELSE IF n = 1 THEN Body(z)
    ELSE LET a1 == Repeat(Body, Done, z, (n + 7) \div 8)
             a2 == Repeat(Body, Done, a1, (n + 6) \div 8)
             a3 == Repeat(Body, Done, a2, (n + 5) \div 8)
             a4 == Repeat(Body, Done, a3, (n + 4) \div 8)
             a5 == Repeat(Body, Done, a4, (n + 3) \div 8)
             a6 == Repeat(Body, Done, a5, (n + 2) \div 8)
             a7 == Repeat(Body, Done, a6, (n + 1) \div 8)
             a8 == Repeat(Body, Done, a7, n \div 8)
         IN  <<a1, a2, a3, a4, a5, a6, a7, a8>>[8]

\* l when the search ended before m, else the result of the search from m on
Sooner(l, m, rest) == IF l < m THEN l ELSE rest

\* the least i in lo..hi-1 where Same(i) fails, hi if there is none
RECURSIVE FirstDiff(_, _, _)
FirstDiff(Same(_), lo, hi) ==
    IF lo >= hi THEN hi
    ELSE IF hi = lo + 1 THEN (IF Same(lo) THEN hi ELSE lo)
    ELSE LET m1 == lo + ((hi - lo + 3) \div 4)
             m2 == m1 + ((hi - lo + 2) \div 4)
             m3 == m2 + ((hi - lo + 1) \div 4)
             l1 == FirstDiff(Same, lo, m1)
             l2 == Sooner(l1, m1, FirstDiff(Same, m1, m2))
             l3 == Sooner(l2, m2, FirstDiff(Same, m2, m3))
             l4 == Sooner(l3, m3, FirstDiff(Same, m3, hi))
         IN  <<l1, l2, l3, l4>>[4]

\* v is computed once and goes by the name the body In gives it
Let(v, In(_)) == In(v)

Take(q, n) == SubSeq(q, 1, Min(n, Len(q)))
Drop(q, n) == SubSeq(q, Min(n, Len(q)) + 1, Len(q))

(* ------------------------------------------------------------------ *)
(* Memory                                                             *)
(* ------------------------------------------------------------------ *)
\* window[i].  z.window holds the bytes that were written; the bytes from
\* there up to high_water are the ones fill_window zeroed; a byte beyond
\* was never written and reads as whatever the allocator left (z.uninit)
WinAt(z, i) ==
    IF i >= 0 /\ i < Len(z.window) THEN z.window[i + 1]
    ELSE IF i >= 0 /\ i < z.high_water THEN 0
    ELSE z.uninit

\* head[h], NIL where CLEAR_HASH left the zero
HeadAt(z, h) == IF h \in DOMAIN z.head THEN z.head[h] ELSE NIL

\* prev[i]: never initialised, so an entry that was never written is garbage
PrevAt(z, i) == IF i \in DOMAIN z.prev THEN z.prev[i] ELSE z.uninit * 257

\* *(uint32_t*)&window[i], little endian, reduced by hash_mask: only the
\* low hash_bits (<= 16) bits of the word survive the mask
Load32Masked(z, i) ==
    (WinAt(z, i) + 256 * WinAt(z, i + 1)) % (z.hash_mask + 1)

\* the four bytes *(uint32_t*)&window[i]
Load32(z, i) == <<WinAt(z, i), WinAt(z, i + 1), WinAt(z, i + 2), WinAt(z, i + 3)>>

(* ------------------------------------------------------------------ *)
(* What a session has been through.  z.seen is history kept beside the *)
(* context: the code has no such field, and nothing below reads it but *)
(* the properties.                                                     *)
(*   data_end    window index one past the last input byte read_buf    *)
(*               copied in (strstart + lookahead whenever both are     *)
(*               current)                                              *)
(*   overrun     the largest number of bytes by which a 4-byte word    *)
(*               that was hashed reached beyond data_end               *)
(*   slides, pre, post   the number of window slides, and the context  *)
(*               just before and just after the last one               *)
(*   fill_end, fill_at   the largest strstart + lookahead and the      *)
(*               largest strstart a window fill returned with          *)
(*   idle        the number of window fills that found input and read  *)
(*               none of it                                            *)
(*   low         the smallest lookahead a pass of a tokenizer left     *)
(*   touched     the fields a call of longest_match left with another  *)
(*               value than it found                                   *)
(*   searched, search   whether longest_match was called, and of the   *)
(*               calls the one that examined the most candidates       *)
(*               beyond its chain length: how many it examined and     *)
(*               the tuning it ran with                                *)
(*   lazy        what the lazy tokenizer did with each match it had    *)
(*               put off                                               *)
(* ------------------------------------------------------------------ *)
NothingSeen ==
    [data_end |-> 0, overrun |-> 0, slides |-> 0, pre |-> <<>>, post |-> <<>>,
     fill_end |-> 0, fill_at |-> 0, idle |-> 0, low |-> 0,
     touched |-> {}, searched |-> FALSE,
     search |-> [probes |-> 0, max_chain_length |-> 0, prev_length |-> 0,
                 good_match |-> 0],
     lazy |-> {}]

\* hash_func reads *(uint32_t*)&window[str]: the bytes str .. str+3
Hashing(z, str) ==
    [z.seen EXCEPT !.overrun = Max(@, str + 4 - z.seen.data_end)]

\* the positional state a slide rebases
Frame(z) ==
    [strstart |-> z.strstart, lookahead |-> z.lookahead,
     block_start |-> z.block_start, match_start |-> z.match_start,
     match_length |-> z.match_length, match_available |-> z.match_available,
     window |-> z.window, high_water |-> z.high_water, uninit |-> z.uninit,
     head |-> z.head, prev |-> z.prev]

(* ------------------------------------------------------------------ *)
(* Position index                                                     *)
(* ------------------------------------------------------------------ *)
\* ((h << hash_shift) ^ *(uint32_t*)str) & hash_mask, with h <= hash_mask:
\* (h << k) & mask keeps the low hash_bits - k bits of h, moved up by k
hash_func_default(z, h, str) ==
    LET sh == IF z.hash_shift >= z.hash_bits THEN 0
              ELSE (h % Pow2(z.hash_bits - z.hash_shift)) * Pow2(z.hash_shift)
    IN  Xor(sh, Load32Masked(z, str), z.hash_bits)

hash_func(z, h, str) == hash_func_default(z, h, str)

\* an insert that links the position to itself instead of to the old head
insert_string_selflink(z, str) ==
    Let(hash_func(z, z.ins_h, str), LAMBDA h :
    [z EXCEPT !.ins_h = h,
              !.prev = ((str % z.w_size) :> str) @@ z.prev,
              !.head = (h :> str) @@ z.head,
              !.hash_head = HeadAt(z, h),
              !.seen = Hashing(z, str)])

\* returns the context with hash_head set to the previous head of the chain
insert_string(z, str) ==
    Let(hash_func(z, z.ins_h, str), LAMBDA h :
    Let(HeadAt(z, h), LAMBDA match_head :
    [z EXCEPT !.ins_h = h,
              !.prev = ((str % z.w_size) :> match_head) @@ z.prev,
              !.head = (h :> str) @@ z.head,
              !.hash_head = match_head,
              !.seen = Hashing(z, str)]))

\* the strings at startpos .. startpos+count-1, in that order
bulk_insert_str(z, startpos, count) ==
    Repeat(LAMBDA r : Let(hash_func(r.z, r.z.ins_h, r.idx), LAMBDA h :
                          [z |-> [r.z EXCEPT
                                    !.ins_h = h,
                                    !.prev = ((r.idx % r.z.w_size) :> HeadAt(r.z, h))
                                             @@ r.z.prev,
                                    !.head = (h :> r.idx) @@ r.z.head,
                                    !.seen = Hashing(r.z, r.idx)],
                           idx |-> r.idx + 1]),
           LAMBDA r : r.idx >= startpos + count,
           [z |-> z, idx |-> startpos], count).z

(* ------------------------------------------------------------------ *)
(* Token buffer                                                       *)
(* ------------------------------------------------------------------ *)
Lit(c) == <<"lit", c, 0>>
Match(len, dist) == <<"match", len, dist>>

\* l_buf/d_buf entry for a literal; bflush is set when the buffer is full.
\* toks is history: every token ever tallied, with the input position it
\* starts at.  strstart stands at input position total_in - lookahead; the
\* lazy tokenizer tallies one position behind it (back = 1).
TokStart(z) == z.total_in - z.lookahead - z.back

tr_tally_lit(z, cc) ==
    [z EXCEPT !.l_buf = Append(z.l_buf, Lit(cc)),
              !.toks = Append(z.toks, <<"lit", cc, 0, TokStart(z)>>),
              !.bflush = (Len(z.l_buf) + 1 = z.lit_bufsize - 1)]

\* l_buf holds len = length - MIN_MATCH in a uint8_t, d_buf the uint16_t distance
tr_tally_dist(z, dist, len) ==
    LET length == (len % 256) + MIN_MATCH
        d16 == dist % 65536
    IN  [z EXCEPT !.l_buf = Append(z.l_buf, Match(length, d16)),
                  !.toks = Append(z.toks, <<"match", length, d16, TokStart(z)>>),
                  !.bflush = (Len(z.l_buf) + 1 = z.lit_bufsize - 1)]

(* ------------------------------------------------------------------ *)
(* Entropy coder and output staging.  One output unit per token, block *)
(* header, end-of-block code and plain byte.  bi_buf holds the unit    *)
(* whose last bits are not yet a whole byte.                           *)
(* ------------------------------------------------------------------ *)
Byte(v) == <<"byte", v, 0>>

\* a byte of pending_buf that holds what was left there
Stale == <<"stale", 0, 0>>

\* pending_buf[pending++] = c.  z.pending holds the pending bytes from
\* pending_out on; pending_out is kept as an offset into pending_buf.  Once
\* flush_pending has moved pending_out past the start of the buffer with
\* bytes still pending, index `pending` is no longer the end of them: the
\* byte lands pending_out places before it, and the last pending byte is
\* one this call did not write
put_byte(z, c) ==
    IF z.pending_out = 0 THEN [z EXCEPT !.pending = Append(z.pending, Byte(c))]
    ELSE LET at == Len(z.pending) - z.pending_out + 1
         IN  [z EXCEPT !.pending =
                 Append(IF at >= 1 THEN [z.pending EXCEPT ![at] = Byte(c)]
                        ELSE z.pending, Stale)]

\* the bits of `items` follow those in bi_buf; the last unit stays there
send_bits(z, items) ==
    [z EXCEPT !.pending = z.pending \o z.bi_buf \o SubSeq(items, 1, Len(items) - 1),
              !.bi_buf = <<items[Len(items)]>>]

bi_windup(z) == [z EXCEPT !.pending = z.pending \o z.bi_buf, !.bi_buf = <<>>]

\* whole bytes leave the accumulator, a partial byte stays
tr_flush_bits(z) == z

tr_init(z) == [z EXCEPT !.bi_buf = <<>>, !.l_buf = <<>>]

WinBytes(z, from, n) == [i \in 1..n |-> Byte(WinAt(z, from + i - 1))]

\* 3 header bits, then byte aligned: LEN, NLEN and the bytes themselves
tr_stored_block(z, buf, stored_len, last) ==
    LET z1 == bi_windup(send_bits(z, <<<<"stored", last, stored_len>>>>))
    IN  [z1 EXCEPT !.pending = z1.pending
                     \o <<Byte(stored_len % 256), Byte(stored_len \div 256),
                          Byte(255 - (stored_len % 256)), Byte(255 - (stored_len \div 256))>>
                     \o (IF buf < 0 THEN <<>> ELSE WinBytes(z, buf, stored_len))]

tr_align(z) == send_bits(z, <<<<"align", 0, 0>>>>)

\* buf < 0 stands for a null buffer.  Level 0 codes nothing, so the block
\* is stored; otherwise the tokens of l_buf are coded.
tr_flush_block(z, buf, stored_len, last) ==
    LET z1 == IF z.level = 0 /\ buf >= 0
              THEN tr_stored_block(z, buf, stored_len, last)
              ELSE send_bits(z, <<<<"block", last, 0>>>> \o z.l_buf \o <<<<"eob", 0, 0>>>>)
        z2 == [z1 EXCEPT !.l_buf = <<>>]
    IN  IF last = 1 THEN bi_windup(z2) ELSE z2

(* ------------------------------------------------------------------ *)
(* Checksums                                                          *)
(* ------------------------------------------------------------------ *)
\* the two running sums modulo 65521, one byte after the other
adler32(adler, buf) ==
    LET r == Repeat(LAMBDA a : LET lo == (a.lo + buf[a.idx]) % 65521
                               IN  [hi |-> (a.hi + lo) % 65521, lo |-> lo,
                                    idx |-> a.idx + 1],
                    LAMBDA a : a.idx > Len(buf),
                    [hi |-> adler.hi, lo |-> adler.lo, idx |-> 1], Len(buf))
    IN  [hi |-> r.hi, lo |-> r.lo]

adler32_init == [hi |-> 0, lo |-> 1]

\* stands for the CRC-32: a value fixed by the bytes folded in
crc32(crc, buf) ==
    [hi |-> (crc.hi + Len(buf)) % 65536, lo |-> (crc.lo + SumSeq(buf)) % 65536]

crc32_init == [hi |-> 0, lo |-> 0]

(* ------------------------------------------------------------------ *)
(* Stream input and output                                            *)
(* ------------------------------------------------------------------ *)
putShortMSB(z, b) == put_byte(put_byte(z, b \div 256), b % 256)

flush_pending(z) ==
    LET z1 == tr_flush_bits(z)
        len == Min(Len(z1.pending), z1.avail_out)
    IN  IF len = 0 THEN z1
        ELSE [z1 EXCEPT !.out = z1.out \o SubSeq(z1.pending, 1, len),
                        !.pending = SubSeq(z1.pending, len + 1, Len(z1.pending)),
                        !.pending_out = IF len = Len(z1.pending) THEN 0
                                        ELSE z1.pending_out + len,
                        !.total_out = z1.total_out + len,
                        !.avail_out = z1.avail_out - len]

\* window with `bytes` written from index pos on
WriteWin(z, pos, bytes) ==
    SubSeq([i \in 1..Max(Len(z.window), pos + Len(bytes)) |->
               IF i > pos /\ i <= pos + Len(bytes) THEN bytes[i - pos]
               ELSE IF i <= Len(z.window) THEN z.window[i] ELSE z.uninit],
           1, Max(Len(z.window), pos + Len(bytes)))

\* copies into window + buf; n_read is the value returned
read_buf(z, buf, size) ==
    LET len == Min(z.avail_in, size)
        bytes == SubSeq(z.in_data, z.next_in + 1, z.next_in + len)
    IN  IF len = 0 THEN [z EXCEPT !.n_read = 0]
        ELSE [z EXCEPT !.avail_in = z.avail_in - len,
                       !.window = WriteWin(z, buf, bytes),
                       !.adler = IF z.wrap = 1 THEN adler32(z.adler, bytes)
                                 ELSE IF z.wrap = 2 THEN crc32(z.adler, bytes)
                                 ELSE z.adler,
                       !.next_in = z.next_in + len,
                       !.total_in = z.total_in + len,
                       !.n_read = len,
                       !.seen = [z.seen EXCEPT !.data_end = buf + len]]

(* ------------------------------------------------------------------ *)
(* Window fill and slide                                              *)
(* ------------------------------------------------------------------ *)
MAX_DIST(z) == z.w_size - MIN_LOOKAHEAD

\* a rebase that does not stop at NIL
SlidePos_unclamped(m, wsize) == m - wsize

\* m >= wsize ? m - wsize : NIL (and _mm_subs_epu16, which saturates at 0)
SlidePos(m, wsize) == IF m >= wsize THEN m - wsize ELSE NIL

\* a slide that leaves everything where it is
SlideWindow_none(z) == z

\* the upper half moves down; every entry of head[] and prev[] is rebased.
\* match_start is a uInt: a value below zero here stands for the one that is
\* 2^32 higher, which the subtraction wraps to, and every later use
\* (strstart - 1 - prev_match, again on uInt) gives the same result for both
SlideWindow(z) ==
    LET wsize == z.w_size
    IN  Let([z EXCEPT !.window = SubSeq([i \in 1..Len(z.window) |->
                                        IF i <= wsize THEN WinAt(z, i - 1 + wsize)
                                        ELSE z.window[i]], 1, Len(z.window)),
                  !.match_start = z.match_start - wsize,
                  !.strstart = z.strstart - wsize,
                  !.block_start = z.block_start - wsize,
                  !.head = [h \in DOMAIN z.head |-> SlidePos(z.head[h], wsize)],
                  !.prev = [i \in DOMAIN z.prev |-> SlidePos(z.prev[i], wsize)]],
            LAMBDA s :
        [s EXCEPT !.seen = [z.seen EXCEPT !.data_end = @ - wsize,
                                          !.slides = @ + 1,
                                          !.pre = Frame(z),
                                          !.post = Frame(s)]])

\* while (s->insert) of fill_window_sse42: str is hashed at &window[str]
RECURSIVE InsertPendingSse42(_, _, _)
InsertPendingSse42(z, str, ins_h) ==
    IF z.insert = 0 THEN [z EXCEPT !.ins_h = ins_h]
    ELSE Let(hash_func(z, ins_h, str), LAMBDA h :
         Let([z EXCEPT !.prev = ((str % z.w_size) :> HeadAt(z, h)) @@ z.prev,
                       !.head = (h :> str) @@ z.head,
                       !.insert = z.insert - 1,
                       !.seen = Hashing(z, str)], LAMBDA z1 :
         IF z1.lookahead + z1.insert < ACTUAL_MIN_MATCH
         THEN [z1 EXCEPT !.ins_h = h]
         ELSE InsertPendingSse42(z1, str + 1, h)))

\* while (s->insert) of fill_window_default: str is hashed at
\* &window[str + MIN_MATCH-1], after ins_h was primed at &window[str + 1]
RECURSIVE InsertPendingDefault(_, _)
InsertPendingDefault(z, str) ==
    IF z.insert = 0 THEN z
    ELSE Let(hash_func(z, z.ins_h, str + MIN_MATCH - 1), LAMBDA h :
         Let([z EXCEPT !.ins_h = h,
                       !.prev = ((str % z.w_size) :> HeadAt(z, h)) @@ z.prev,
                       !.head = (h :> str) @@ z.head,
                       !.insert = z.insert - 1,
                       !.seen = Hashing(z, str + MIN_MATCH - 1)], LAMBDA z1 :
         IF z1.lookahead + z1.insert < MIN_MATCH THEN z1
         ELSE InsertPendingDefault(z1, str + 1)))

\* the do-while of fill_window_sse42 (vector) or fill_window_default
RECURSIVE FillLoop(_, _)
FillLoop(z, vector) ==
    LET more0 == z.window_size - z.lookahead - z.strstart
        slide == z.strstart >= z.w_size + MAX_DIST(z)
        more == IF slide THEN more0 + z.w_size ELSE more0
    IN  Let(IF slide THEN SlideWindow(z) ELSE z, LAMBDA z1 :
        IF z1.avail_in = 0 THEN z1
        ELSE
        Let(read_buf(z1, z1.strstart + z1.lookahead, more), LAMBDA z2 :
        Let([z2 EXCEPT !.lookahead = z2.lookahead + z2.n_read], LAMBDA z3 :
        Let(z3.strstart - z3.insert, LAMBDA str :
        Let(IF vector
            THEN (IF z3.lookahead + z3.insert >= ACTUAL_MIN_MATCH
                  THEN InsertPendingSse42(z3, str, WinAt(z3, str))
                  ELSE z3)
            ELSE (IF z3.lookahead + z3.insert >= MIN_MATCH
                  THEN InsertPendingDefault(
                           [z3 EXCEPT !.ins_h =
                               hash_func(z3, WinAt(z3, str), str + 1),
                                      !.seen = Hashing(z3, str + 1)], str)
                  ELSE z3), LAMBDA z4 :
        IF z4.lookahead < MIN_LOOKAHEAD /\ z4.avail_in # 0
        THEN FillLoop(z4, vector) ELSE z4)))))

\* the WIN_INIT bytes after the data are zeroed once: zmemzero only ever
\* hits bytes above everything written, so moving high_water zeroes them
HighWater(z) ==
    LET curr == z.strstart + z.lookahead
    IN  IF z.high_water >= z.window_size THEN z
        ELSE IF z.high_water < curr
        THEN LET init == Min(z.window_size - curr, WIN_INIT)
             IN  [z EXCEPT !.high_water = curr + init]
        ELSE IF z.high_water < curr + WIN_INIT
        THEN LET init == Min(curr + WIN_INIT - z.high_water,
                             z.window_size - z.high_water)
             IN  [z EXCEPT !.high_water = z.high_water + init]
        ELSE z

fill_window_default(z) == HighWater(FillLoop(z, FALSE))

fill_window_sse42(z) == HighWater(FillLoop(z, TRUE))

\* the resolver picks the vector variant on a CPU with SSE4.2
resolve_fill_window(z) == z.sse42

\* what a window fill that found the context z returned
Filled(z, f) ==
    [f EXCEPT !.seen = [f.seen EXCEPT
        !.fill_end = Max(@, f.strstart + f.lookahead),
        !.fill_at = Max(@, f.strstart),
        !.idle = @ + (IF z.avail_in > 0 /\ f.avail_in = z.avail_in THEN 1 ELSE 0)]]

fill_window(z) ==
    Filled(z, IF resolve_fill_window(z) THEN fill_window_sse42(z)
              ELSE fill_window_default(z))

(* ------------------------------------------------------------------ *)
(* Match finder                                                       *)
(* ------------------------------------------------------------------ *)
\* --chain_length on a uint32_t: 0 wraps to the largest value
DecChain(c) == IF c = 0 THEN 2147483647 ELSE c - 1

\* the 8-byte strides from offset 4 on stop at the first differing byte;
\* the result is cut to MAX_MATCH (scan > strend => scan = strend)
MatchRun_over(z, scan, match, o) ==
    Min(MAX_MATCH,
        1 + FirstDiff(LAMBDA i : WinAt(z, scan + i) = WinAt(z, match + i), o, MAX_MATCH))

MatchRun(z, scan, match, o) ==
    FirstDiff(LAMBDA i : WinAt(z, scan + i) = WinAt(z, match + i), o, MAX_MATCH)

\* one candidate of the chain: it is skipped when a word test fails, else
\* measured; r holds cur_match, chain_length, best_len and match_start
LmStep(z, r, nice_match, limit) ==
    LET skip == Load32(z, r.cur_match + r.best_len - 3)
                    # Load32(z, z.strstart + r.best_len - 3)
                \/ Load32(z, r.cur_match) # Load32(z, z.strstart)
        nxt == PrevAt(z, r.cur_match % z.w_size)
    IN  Let(IF skip THEN 0 ELSE MatchRun(z, z.strstart, r.cur_match, 4), LAMBDA len :
        Let(IF len > r.best_len
            THEN [r EXCEPT !.best_len = len, !.match_start = r.cur_match]
            ELSE r, LAMBDA r1 :
        IF len > r.best_len /\ len >= nice_match THEN [r1 EXCEPT !.done = TRUE]
        ELSE IF nxt > limit /\ DecChain(r.chain_length) # 0
        THEN [r1 EXCEPT !.cur_match = nxt, !.chain_length = DecChain(r.chain_length)]
        ELSE [r1 EXCEPT !.done = TRUE]))

\* the do-while over the chain: every step moves to an older position;
\* probes counts the candidates examined
LmLoop(z, cur_match, chain_length, best_len, match_start, nice_match, limit) ==
    Repeat(LAMBDA r : [LmStep(z, r, nice_match, limit) EXCEPT !.probes = r.probes + 1],
           LAMBDA r : r.done,
           [cur_match |-> cur_match, chain_length |-> chain_length,
            best_len |-> best_len, match_start |-> match_start, done |-> FALSE,
            probes |-> 0],
           z.window_size)

\* the chain length a call starts with: chain_length >>= 2 when the previous
\* match reached good_match
ChainLength(c) ==
    IF c.prev_length >= c.good_match THEN c.max_chain_length \div 4
    ELSE c.max_chain_length

\* the call of longest_match that found the context z and left it as `after`
\* examined `probes` candidates
Searched(z, after, probes) ==
    LET call == [probes |-> probes, max_chain_length |-> z.max_chain_length,
                 prev_length |-> z.prev_length, good_match |-> z.good_match]
        worst == z.seen.search
    IN  [after EXCEPT !.seen = [z.seen EXCEPT
            !.touched = @ \cup {f \in DOMAIN z \ {"seen", "lm_ret"} : after[f] # z[f]},
            !.searched = TRUE,
            !.search = IF ~z.seen.searched
                          \/ probes - ChainLength(call)
                                > worst.probes - ChainLength(worst)
                       THEN call ELSE worst]]

longest_match_unclamped(z, cur_match) ==
    LET chain_length == IF z.prev_length >= z.good_match
                        THEN z.max_chain_length \div 4 ELSE z.max_chain_length
        nice_match == IF z.nice_match > z.lookahead THEN z.lookahead ELSE z.nice_match
        limit == IF z.strstart > MAX_DIST(z) THEN z.strstart - MAX_DIST(z) ELSE NIL
    IN  Let(LmLoop(z, cur_match, chain_length, z.prev_length, z.match_start,
                   nice_match, limit), LAMBDA r :
        [z EXCEPT !.match_start = r.match_start, !.lm_ret = r.best_len])

\* a search that also stores the length it found
longest_match_storing(z, cur_match) ==
    LET chain_length == ChainLength(z)
        nice_match == IF z.nice_match > z.lookahead THEN z.lookahead ELSE z.nice_match
        limit == IF z.strstart > MAX_DIST(z) THEN z.strstart - MAX_DIST(z) ELSE NIL
    IN  Let(LmLoop(z, cur_match, chain_length, z.prev_length, z.match_start,
                   nice_match, limit), LAMBDA r :
        Searched(z, [z EXCEPT !.match_start = r.match_start,
                              !.match_length = r.best_len,
                              !.lm_ret = IF r.best_len <= z.lookahead THEN r.best_len
                                         ELSE z.lookahead], r.probes))

\* sets match_start; lm_ret is the value returned
longest_match(z, cur_match) ==
    LET chain_length == ChainLength(z)
        nice_match == IF z.nice_match > z.lookahead THEN z.lookahead ELSE z.nice_match
        limit == IF z.strstart > MAX_DIST(z) THEN z.strstart - MAX_DIST(z) ELSE NIL
    IN  Let(LmLoop(z, cur_match, chain_length, z.prev_length, z.match_start,
                   nice_match, limit), LAMBDA r :
        Searched(z, [z EXCEPT !.match_start = r.match_start,
                              !.lm_ret = IF r.best_len <= z.lookahead THEN r.best_len
                                         ELSE z.lookahead], r.probes))

(* ------------------------------------------------------------------ *)
(* Block flush                                                        *)
(* ------------------------------------------------------------------ *)
FLUSH_BLOCK_ONLY(z, last) ==
    LET buf == IF z.block_start >= 0 THEN z.block_start ELSE 0 - 1
        stored_len == z.strstart - z.block_start
        z1 == tr_flush_block(z, buf, stored_len, last)
        z2 == [z1 EXCEPT !.block_start = z.strstart]
    IN  flush_pending(z2)

Ret(z, bstate) == [z EXCEPT !.bs = bstate]

(* ------------------------------------------------------------------ *)
(* Tokenizers.  Each returns the context with bs set to the block     *)
(* state: need_more, block_done, finish_started or finish_done.       *)
(* ------------------------------------------------------------------ *)
\* FLUSH_BLOCK(s, last) followed by `return done`
FlushThen(z, last, done) ==
    Let(FLUSH_BLOCK_ONLY(z, last), LAMBDA z1 :
    IF z1.avail_out = 0
    THEN Ret(z1, IF last = 1 THEN "finish_started" ELSE "need_more")
    ELSE Ret(z1, done))

\* a tail that closes the stream on every flush request
TokTail_eager(z, flush) ==
    IF flush # Z_NO_FLUSH THEN FlushThen(z, 1, "finish_done")
    ELSE IF Len(z.l_buf) # 0 THEN FlushThen(z, 0, "block_done")
    ELSE Ret(z, "block_done")

\* the code after the loop of deflate_fast, deflate_slow, deflate_rle, deflate_huff
TokTail(z, flush) ==
    IF flush = Z_FINISH THEN FlushThen(z, 1, "finish_done")
    ELSE IF Len(z.l_buf) # 0 THEN FlushThen(z, 0, "block_done")
    ELSE Ret(z, "block_done")

\* for (;;) of a tokenizer: Step runs until it has set the block state;
\* every pass but the last takes a byte of input or lookahead, or closes a block
TokLoop(Step(_), z) ==
    Repeat(LAMBDA s : Let(Step(s), LAMBDA s1 :
                          [s1 EXCEPT !.seen = [s1.seen EXCEPT
                                                  !.low = Min(@, s1.lookahead)]]),
           LAMBDA s : s.bs # "none", [z EXCEPT !.bs = "none"],
           (2 * (z.lookahead + z.avail_in)) + 2)

\* one pass of the loop of deflate_stored
StoredStep(z, flush) ==
    LET max_block_size == Min(65535, z.pending_buf_size - 5)
    IN  Let(IF z.lookahead <= 1 THEN fill_window(z) ELSE z, LAMBDA z1 :
        IF z.lookahead <= 1 /\ z1.lookahead = 0 /\ flush = Z_NO_FLUSH
        THEN Ret(z1, "need_more")
        ELSE IF z.lookahead <= 1 /\ z1.lookahead = 0
        THEN Let([z1 EXCEPT !.insert = 0], LAMBDA z2 :
             IF flush = Z_FINISH THEN FlushThen(z2, 1, "finish_done")
             ELSE IF z2.strstart > z2.block_start THEN FlushThen(z2, 0, "block_done")
             ELSE Ret(z2, "block_done"))
        ELSE
        Let([z1 EXCEPT !.strstart = z1.strstart + z1.lookahead,
                       !.lookahead = 0], LAMBDA z2 :
        Let(z2.block_start + max_block_size, LAMBDA max_start :
        Let(z2.strstart = 0 \/ z2.strstart >= max_start, LAMBDA over :
        Let(IF over
            THEN FLUSH_BLOCK_ONLY([z2 EXCEPT !.lookahead = z2.strstart - max_start,
                                             !.strstart = max_start], 0)
            ELSE z2, LAMBDA z3 :
        IF over /\ z3.avail_out = 0 THEN Ret(z3, "need_more")
        ELSE IF z3.strstart - z3.block_start >= MAX_DIST(z3)
        THEN Let(FLUSH_BLOCK_ONLY(z3, 0), LAMBDA z4 :
             IF z4.avail_out = 0 THEN Ret(z4, "need_more")
             ELSE z4)
        ELSE z3)))))

deflate_stored(z, flush) == TokLoop(LAMBDA s : StoredStep(s, flush), [z EXCEPT !.back = 0])

\* strstart - hash_head <= MAX_DIST(s) on unsigned values: a head beyond
\* strstart wraps to a huge distance
InDist(z, hash_head) ==
    z.strstart - hash_head >= 0 /\ z.strstart - hash_head <= MAX_DIST(z)

\* one pass of the loop of deflate_fast
FastStep(z, flush) ==
    Let(IF z.lookahead < MIN_LOOKAHEAD THEN fill_window(z) ELSE z, LAMBDA z1 :
    IF z.lookahead < MIN_LOOKAHEAD /\ z1.lookahead < MIN_LOOKAHEAD /\ flush = Z_NO_FLUSH
    THEN Ret(z1, "need_more")
    ELSE IF z.lookahead < MIN_LOOKAHEAD /\ z1.lookahead = 0
    THEN TokTail([z1 EXCEPT !.insert = Min(z1.strstart, ACTUAL_MIN_MATCH - 1)], flush)
    ELSE
    Let(IF z1.lookahead >= ACTUAL_MIN_MATCH
        THEN insert_string(z1, z1.strstart)
        ELSE [z1 EXCEPT !.hash_head = NIL], LAMBDA z2 :
    Let(IF z2.hash_head # NIL /\ InDist(z2, z2.hash_head)
        THEN Let(longest_match(z2, z2.hash_head), LAMBDA m :
                 [m EXCEPT !.match_length = m.lm_ret])
        ELSE z2, LAMBDA z3 :
    Let(IF z3.match_length >= ACTUAL_MIN_MATCH
        THEN Let(tr_tally_dist(z3, z3.strstart - z3.match_start,
                               z3.match_length - MIN_MATCH), LAMBDA t1 :
             Let([t1 EXCEPT !.lookahead = t1.lookahead - t1.match_length], LAMBDA t2 :
             IF t2.match_length <= t2.max_lazy_match
                /\ t2.lookahead >= ACTUAL_MIN_MATCH
             THEN [bulk_insert_str(t2, t2.strstart + 1, t2.match_length - 1)
                     EXCEPT !.strstart = t2.strstart + t2.match_length,
                            !.match_length = 0]
             ELSE [t2 EXCEPT !.strstart = t2.strstart + t2.match_length,
                             !.match_length = 0]))
        ELSE Let(tr_tally_lit(z3, WinAt(z3, z3.strstart)), LAMBDA t1 :
             [t1 EXCEPT !.lookahead = t1.lookahead - 1,
                        !.strstart = t1.strstart + 1]), LAMBDA z4 :
    IF z4.bflush
    THEN Let(FLUSH_BLOCK_ONLY(z4, 0), LAMBDA z5 :
         IF z5.avail_out = 0 THEN Ret(z5, "need_more")
         ELSE z5)
    ELSE z4))))

deflate_fast(z, flush) == TokLoop(LAMBDA s : FastStep(s, flush), [z EXCEPT !.back = 0])

\* the code after the loop of deflate_slow
SlowTail(z, flush) ==
    Let(IF z.match_available = 1
        THEN [tr_tally_lit(z, WinAt(z, z.strstart - 1)) EXCEPT !.match_available = 0]
        ELSE z, LAMBDA z1 :
    TokTail([z1 EXCEPT !.insert = Min(z1.strstart, ACTUAL_MIN_MATCH - 1)], flush))

\* a commit that takes the length found at strstart for the match of
\* strstart - 1
SlowEmitMatch_current(z) ==
    Let(tr_tally_dist(z, z.strstart - 1 - z.prev_match, z.match_length - MIN_MATCH),
        LAMBDA t1 :
    [t1 EXCEPT !.lookahead = t1.lookahead - (t1.prev_length - 1),
               !.prev_length = 0,
               !.match_available = 0,
               !.match_length = ACTUAL_MIN_MATCH - 1,
               !.strstart = t1.strstart + t1.prev_length - 1])

\* the branch of deflate_slow that commits the match found one position back.
\* max_insert - strstart is lookahead - ACTUAL_MIN_MATCH on uint32_t: below
\* zero it wraps to a value no insert_cnt exceeds
SlowEmitMatch(z) ==
    LET room == z.lookahead - ACTUAL_MIN_MATCH
        mov_fwd == z.prev_length - 2
        insert_cnt == IF room >= 0 /\ mov_fwd > room THEN room ELSE mov_fwd
    IN  Let(tr_tally_dist(z, z.strstart - 1 - z.prev_match, z.prev_length - MIN_MATCH),
            LAMBDA t1 :
        Let([t1 EXCEPT !.lookahead = t1.lookahead - (t1.prev_length - 1)], LAMBDA t2 :
        Let(bulk_insert_str(t2, t2.strstart + 1, insert_cnt), LAMBDA t3 :
        [t3 EXCEPT !.prev_length = 0,
                   !.match_available = 0,
                   !.match_length = ACTUAL_MIN_MATCH - 1,
                   !.strstart = t3.strstart + mov_fwd + 1])))

\* z is the context of a pass of deflate_slow after its search, `after` the
\* one the pass left.  With a match put off at strstart - 1 (prev_length
\* bytes long) the pass is recorded: the length then found at strstart, the
\* token tallied and where it starts relative to strstart - 1, and what is
\* put off next
Deferred(z, after) ==
    IF z.prev_length < ACTUAL_MIN_MATCH THEN after
    ELSE LET tok == after.toks[Len(after.toks)]
         IN  [after EXCEPT !.seen = [after.seen EXCEPT !.lazy = @ \cup
                 {[was |-> z.prev_length, found |-> z.match_length,
                   kind |-> tok[1],
                   length |-> IF tok[1] = "match" THEN tok[2] ELSE 1,
                   at |-> tok[4] - (z.total_in - z.lookahead - 1),
                   byte |-> IF tok[1] = "lit" THEN tok[2] ELSE WinAt(z, z.strstart - 1),
                   src |-> WinAt(z, z.strstart - 1),
                   held |-> after.match_available,
                   next |-> after.match_length]}]]

\* one pass of the loop of deflate_slow
SlowStep(z, flush) ==
    Let(IF z.lookahead < MIN_LOOKAHEAD THEN fill_window(z) ELSE z, LAMBDA z1 :
    IF z.lookahead < MIN_LOOKAHEAD /\ z1.lookahead < MIN_LOOKAHEAD /\ flush = Z_NO_FLUSH
    THEN Ret(z1, "need_more")
    ELSE IF z.lookahead < MIN_LOOKAHEAD /\ z1.lookahead = 0
    THEN SlowTail(z1, flush)
    ELSE
    Let(IF z1.lookahead >= ACTUAL_MIN_MATCH
        THEN insert_string(z1, z1.strstart)
        ELSE [z1 EXCEPT !.hash_head = NIL], LAMBDA z2 :
    Let([z2 EXCEPT !.prev_length = z2.match_length,
                   !.prev_match = z2.match_start,
                   !.match_length = ACTUAL_MIN_MATCH - 1], LAMBDA z3 :
    Let(IF z3.hash_head # NIL /\ z3.prev_length < z3.max_lazy_match
           /\ InDist(z3, z3.hash_head)
        THEN Let(longest_match(z3, z3.hash_head), LAMBDA m :
                 [m EXCEPT !.match_length =
                     IF m.lm_ret <= 5 /\ m.strategy = Z_FILTERED
                     THEN ACTUAL_MIN_MATCH - 1 ELSE m.lm_ret])
        ELSE z3, LAMBDA z4 :
    Deferred(z4,
    IF z4.prev_length >= ACTUAL_MIN_MATCH /\ z4.match_length <= z4.prev_length
    THEN Let(SlowEmitMatch(z4), LAMBDA z5 :
         IF z5.bflush
         THEN Let(FLUSH_BLOCK_ONLY(z5, 0), LAMBDA z6 :
              IF z6.avail_out = 0 THEN Ret(z6, "need_more")
              ELSE z6)
         ELSE z5)
    ELSE IF z4.match_available = 1
    THEN Let(tr_tally_lit(z4, WinAt(z4, z4.strstart - 1)), LAMBDA t1 :
         Let(IF t1.bflush THEN FLUSH_BLOCK_ONLY(t1, 0) ELSE t1, LAMBDA t2 :
         Let([t2 EXCEPT !.strstart = t2.strstart + 1,
                        !.lookahead = t2.lookahead - 1], LAMBDA t3 :
         IF t3.avail_out = 0 THEN Ret(t3, "need_more")
         ELSE t3)))
    ELSE [z4 EXCEPT !.match_available = 1,
                    !.strstart = z4.strstart + 1,
                    !.lookahead = z4.lookahead - 1])))))

deflate_slow(z, flush) == TokLoop(LAMBDA s : SlowStep(s, flush), [z EXCEPT !.back = 1])

\* length of the run of bytes equal to prev from scan on, cut to MAX_MATCH
RleRun(z, prev, scan, o) ==
    FirstDiff(LAMBDA i : WinAt(z, scan + i) = prev, o, MAX_MATCH)

\* one pass of the loop of deflate_rle
RleStep(z, flush) ==
    Let(IF z.lookahead <= MAX_MATCH THEN fill_window(z) ELSE z, LAMBDA z1 :
    IF z.lookahead <= MAX_MATCH /\ z1.lookahead <= MAX_MATCH /\ flush = Z_NO_FLUSH
    THEN Ret(z1, "need_more")
    ELSE IF z.lookahead <= MAX_MATCH /\ z1.lookahead = 0
    THEN TokTail([z1 EXCEPT !.insert = 0], flush)
    ELSE
    Let(IF z1.lookahead >= ACTUAL_MIN_MATCH /\ z1.strstart > 0
        THEN RleRun(z1, WinAt(z1, z1.strstart - 1), z1.strstart, 0)
        ELSE 0, LAMBDA run :
    Let([z1 EXCEPT !.match_length =
            IF run < 3 THEN 0
            ELSE IF run > z1.lookahead THEN z1.lookahead ELSE run], LAMBDA z2 :
    Let(IF z2.match_length >= ACTUAL_MIN_MATCH
        THEN Let(tr_tally_dist(z2, 1, z2.match_length - MIN_MATCH), LAMBDA t1 :
             [t1 EXCEPT !.lookahead = t1.lookahead - t1.match_length,
                        !.strstart = t1.strstart + t1.match_length,
                        !.match_length = 0])
        ELSE Let(tr_tally_lit(z2, WinAt(z2, z2.strstart)), LAMBDA t1 :
             [t1 EXCEPT !.lookahead = t1.lookahead - 1,
                        !.strstart = t1.strstart + 1]), LAMBDA z3 :
    IF z3.bflush
    THEN Let(FLUSH_BLOCK_ONLY(z3, 0), LAMBDA z4 :
         IF z4.avail_out = 0 THEN Ret(z4, "need_more")
         ELSE z4)
    ELSE z3))))

deflate_rle(z, flush) == TokLoop(LAMBDA s : RleStep(s, flush), [z EXCEPT !.back = 0])

\* one pass of the loop of deflate_huff
HuffStep(z, flush) ==
    Let(IF z.lookahead = 0 THEN fill_window(z) ELSE z, LAMBDA z1 :
    IF z1.lookahead = 0
    THEN (IF flush = Z_NO_FLUSH THEN Ret(z1, "need_more")
          ELSE TokTail([z1 EXCEPT !.insert = 0], flush))
    ELSE
    Let(tr_tally_lit([z1 EXCEPT !.match_length = 0], WinAt(z1, z1.strstart)), LAMBDA t1 :
    Let([t1 EXCEPT !.lookahead = t1.lookahead - 1,
                   !.strstart = t1.strstart + 1], LAMBDA t2 :
    IF t2.bflush
    THEN Let(FLUSH_BLOCK_ONLY(t2, 0), LAMBDA z4 :
         IF z4.avail_out = 0 THEN Ret(z4, "need_more")
         ELSE z4)
    ELSE t2)))

deflate_huff(z, flush) == TokLoop(LAMBDA s : HuffStep(s, flush), [z EXCEPT !.back = 0])

(* ------------------------------------------------------------------ *)
(* Configuration                                                      *)
(* ------------------------------------------------------------------ *)
Config(good, lazy, nice, chain, f) ==
    [good_length |-> good, max_lazy |-> lazy, nice_length |-> nice,
     max_chain |-> chain, func |-> f]

configuration_table ==
    [l \in 0..9 |->
        CASE l = 0 -> Config(0, 0, 0, 0, "deflate_stored")
          [] l = 1 -> Config(4, 4, 8, 4, "deflate_slow")
          [] l = 2 -> Config(4, 5, 16, 8, "deflate_fast")
          [] l = 3 -> Config(4, 6, 32, 32, "deflate_fast")
          [] l = 4 -> Config(4, 4, 16, 16, "deflate_slow")
          [] l = 5 -> Config(8, 16, 32, 32, "deflate_slow")
          [] l = 6 -> Config(8, 16, 128, 128, "deflate_slow")
          [] l = 7 -> Config(8, 32, 128, 256, "deflate_slow")
          [] l = 8 -> Config(32, 128, 258, 1024, "deflate_slow")
          [] l = 9 -> Config(32, 258, 258, 4096, "deflate_slow")]

\* rank Z_BLOCK between Z_NO_FLUSH and Z_PARTIAL_FLUSH
RANK(f) == (2 * f) - (IF f > 4 THEN 9 ELSE 0)

CLEAR_HASH(z) == [z EXCEPT !.head = <<>>]

(* ------------------------------------------------------------------ *)
(* Creation and reset                                                 *)
(* ------------------------------------------------------------------ *)
lm_init(z) ==
    LET c == configuration_table[z.level]
    IN  [CLEAR_HASH(z) EXCEPT
            !.window_size = 2 * z.w_size,
            !.max_lazy_match = c.max_lazy,
            !.good_match = c.good_length,
            !.nice_match = c.nice_length,
            !.max_chain_length = c.max_chain,
            !.strstart = 0,
            !.block_start = 0,
            !.lookahead = 0,
            !.insert = 0,
            !.match_length = ACTUAL_MIN_MATCH - 1,
            !.prev_length = ACTUAL_MIN_MATCH - 1,
            !.match_available = 0,
            !.ins_h = 0,
            !.seen = NothingSeen]

deflateResetKeep(z) ==
    LET wrap == IF z.wrap < 0 THEN 0 - z.wrap ELSE z.wrap
    IN  [tr_init(z) EXCEPT
            !.total_in = 0,
            !.total_out = 0,
            !.pending = <<>>,
            !.pending_out = 0,
            !.wrap = wrap,
            !.status = IF wrap # 0 THEN "INIT" ELSE "BUSY",
            !.adler = IF wrap = 2 THEN crc32_init ELSE adler32_init,
            !.last_flush = Z_NO_FLUSH,
            !.ret = Z_OK]

deflateReset(z) == lm_init(deflateResetKeep(z))

\* gzhead = Z_NULL.  A gz_header is a record: extra is Z_NULL when
\* extra_null holds, and extra_len is the length of extra; name and comment
\* are C strings with their terminating zero, <<>> standing for Z_NULL
NoGzHeader ==
    [null |-> TRUE, text |-> 0, hcrc |-> 0, extra_null |-> TRUE, extra |-> <<>>,
     name |-> <<>>, comment |-> <<>>, time |-> 0, os |-> 0]

\* the state objects: the one deflateInit2_ allocates for a context and the
\* one deflateCopy allocates for its destination
OwnState == 1
CopyState == 2

\* The context as the allocator hands it over: `garbage` is the byte the
\* allocated memory is filled with, `shift` what it holds where hash_shift
\* lies.  Fields that deflateInit2_ and deflateReset assign are overwritten
\* below; hash_shift, match_start, prev_match, window[] and prev[] are not.
RawContext(garbage, shift, vector, data) ==
    [next_in |-> 0, avail_in |-> 0, avail_out |-> 0, out |-> <<>>, in_data |-> data,
     total_in |-> 0, total_out |-> 0, adler |-> adler32_init,
     status |-> "INIT", wrap |-> 0, w_bits |-> 0, w_size |-> 0, w_mask |-> 0,
     hash_bits |-> 0, hash_mask |-> 0, hash_shift |-> shift,
     window |-> <<>>, window_size |-> 0, prev |-> <<>>, head |-> <<>>,
     ins_h |-> 0, high_water |-> 0, lit_bufsize |-> 0, pending_buf_size |-> 0,
     pending |-> <<>>, level |-> 0, strategy |-> 0, last_flush |-> 0,
     block_start |-> 0, strstart |-> 0, lookahead |-> 0, insert |-> 0,
     match_length |-> 0, prev_length |-> 0,
     match_start |-> garbage * 257, prev_match |-> garbage * 257,
     match_available |-> 0, max_lazy_match |-> 0, good_match |-> 0,
     nice_match |-> 0, max_chain_length |-> 0,
     l_buf |-> <<>>, bi_buf |-> <<>>, uninit |-> garbage, sse42 |-> vector,
     toks |-> <<>>, back |-> 0, full_point |-> 0, trailers |-> 0,
     hash_head |-> 0, lm_ret |-> 0, n_read |-> 0, bflush |-> FALSE,
     bs |-> "none", ret |-> 0,
     strm_null |-> FALSE, state |-> Z_NULL, in_null |-> FALSE, out_null |-> FALSE,
     gzhead |-> NoGzHeader, gzindex |-> 0, pending_out |-> 0,
     seen |-> NothingSeen]

\* deflateInit2_ with valid arguments and no allocation failure
deflateInit2_(raw, level, windowBits, memLevel, strategy) ==
    LET wrap == IF windowBits < 0 THEN 0 ELSE IF windowBits > 15 THEN 2 ELSE 1
        wb0 == IF windowBits < 0 THEN 0 - windowBits
               ELSE IF windowBits > 15 THEN windowBits - 16 ELSE windowBits
        wb == IF wb0 = 8 THEN 9 ELSE wb0
    IN  deflateReset([raw EXCEPT
            !.state = OwnState,
            !.wrap = wrap,
            !.gzhead = NoGzHeader,
            !.w_bits = wb,
            !.w_size = Pow2(wb),
            !.w_mask = Pow2(wb) - 1,
            !.hash_bits = memLevel + 7,
            !.hash_mask = Pow2(memLevel + 7) - 1,
            !.high_water = 0,
            !.lit_bufsize = Pow2(memLevel + 6),
            !.pending_buf_size = Pow2(memLevel + 6) * 4,
            !.level = level,
            !.strategy = strategy])

(* ------------------------------------------------------------------ *)
(* Stream controller                                                  *)
(* ------------------------------------------------------------------ *)
Return(z, code) == [z EXCEPT !.ret = code]

\* the bytes in `bytes` go to pending_buf one after the other
PutBytes(z, bytes) ==
    Repeat(LAMBDA r : [z |-> put_byte(r.z, bytes[r.i]), i |-> r.i + 1],
           LAMBDA r : r.i > Len(bytes), [z |-> z, i |-> 1], Len(bytes)).z

\* deflate(): the fixed part of a gzip header made from gzhead
GzHeaderStart(z, xfl) ==
    LET h == z.gzhead
        flags == (IF h.text # 0 THEN 1 ELSE 0) + (IF h.hcrc # 0 THEN 2 ELSE 0)
                 + (IF h.extra_null THEN 0 ELSE 4)
                 + (IF h.name = <<>> THEN 0 ELSE 8)
                 + (IF h.comment = <<>> THEN 0 ELSE 16)
        bytes == <<31, 139, 8, flags,
                   h.time % 256, (h.time \div 256) % 256,
                   (h.time \div 65536) % 256, (h.time \div 16777216) % 256,
                   xfl, h.os % 256>>
                 \o (IF h.extra_null THEN <<>>
                     ELSE <<Len(h.extra) % 256, (Len(h.extra) \div 256) % 256>>)
    IN  Let(PutBytes(z, bytes), LAMBDA z1 :
        [z1 EXCEPT !.adler = IF h.hcrc # 0 THEN crc32(z1.adler, bytes) ELSE @,
                   !.gzindex = 0,
                   !.status = "EXTRA"])

\* deflate(): level_flags of the zlib header
LevelFlags(z) ==
    IF z.strategy >= Z_HUFFMAN_ONLY \/ z.level < 2 THEN 0
    ELSE IF z.level < 6 THEN 1
    ELSE IF z.level = 6 THEN 2 ELSE 3

\* deflate(): the zlib header before header += 31 - (header % 31): method
\* and window size in the high byte, level_flags << 6 and PRESET_DICT
ZlibHeaderFields(z) ==
    ((Z_DEFLATED + ((z.w_bits - 8) * 16)) * 256) + (LevelFlags(z) * 64)
        + (IF z.strstart # 0 THEN PRESET_DICT ELSE 0)

\* a header whose check rounds up to a multiple of 32
ZlibHeader_round32(z) ==
    ZlibHeaderFields(z) + (32 - (ZlibHeaderFields(z) % 32))

\* deflate(): the 16-bit zlib header
ZlibHeader(z) ==
    ZlibHeaderFields(z) + (31 - (ZlibHeaderFields(z) % 31))

\* deflate(): the stream header, written on the first call of a wrapped
\* stream
DeflateHeader(z) ==
    IF z.status # "INIT" THEN z
    ELSE IF z.wrap = 2 THEN
        LET xfl == IF z.level = 9 THEN 2
                   ELSE IF z.strategy >= Z_HUFFMAN_ONLY \/ z.level < 2 THEN 4 ELSE 0
            z1 == [z EXCEPT !.adler = crc32_init, !.status = "BUSY"]
        IN  IF z.gzhead.null
            THEN put_byte(put_byte(put_byte(put_byte(put_byte(put_byte(put_byte(
                 put_byte(put_byte(put_byte(z1, 31), 139), 8), 0), 0), 0), 0), 0),
                 xfl), OS_CODE)
            ELSE GzHeaderStart([z EXCEPT !.adler = crc32_init], xfl)
    ELSE
        LET header == ZlibHeader(z)
            z1 == putShortMSB([z EXCEPT !.status = "BUSY"], header)
            z2 == IF z.strstart # 0
                  THEN putShortMSB(putShortMSB(z1, z.adler.hi), z.adler.lo)
                  ELSE z1
        IN  [z2 EXCEPT !.adler = adler32_init]

DeflateTrailer_early(z) ==
    IF z.wrap <= 0 THEN Return(z, Z_STREAM_END)
    ELSE
        LET z1 == IF z.wrap = 2
                  THEN put_byte(put_byte(put_byte(put_byte(
                       put_byte(put_byte(put_byte(put_byte(z,
                           z.adler.lo % 256), z.adler.lo \div 256),
                           z.adler.hi % 256), z.adler.hi \div 256),
                           z.total_in % 256), (z.total_in \div 256) % 256),
                           (z.total_in \div 65536) % 256), 0)
                  ELSE putShortMSB(putShortMSB(z, z.adler.hi), z.adler.lo)
        IN  Let(flush_pending([z1 EXCEPT !.trailers = @ + 1]), LAMBDA z2 :
            Let(IF z2.wrap > 0 THEN [z2 EXCEPT !.wrap = 0 - z2.wrap] ELSE z2, LAMBDA z3 :
            Return(z3, Z_STREAM_END)))

DeflateTrailer_again(z) ==
    IF z.wrap = 0 THEN Return(z, Z_STREAM_END)
    ELSE
        LET z1 == IF z.wrap \in {2, 0 - 2}
                  THEN put_byte(put_byte(put_byte(put_byte(
                       put_byte(put_byte(put_byte(put_byte(z,
                           z.adler.lo % 256), z.adler.lo \div 256),
                           z.adler.hi % 256), z.adler.hi \div 256),
                           z.total_in % 256), (z.total_in \div 256) % 256),
                           (z.total_in \div 65536) % 256), 0)
                  ELSE putShortMSB(putShortMSB(z, z.adler.hi), z.adler.lo)
        IN  Let(flush_pending([z1 EXCEPT !.trailers = @ + 1]), LAMBDA z2 :
            Let(IF z2.wrap > 0 THEN [z2 EXCEPT !.wrap = 0 - z2.wrap] ELSE z2, LAMBDA z3 :
            Return(z3, IF Len(z3.pending) # 0 THEN Z_OK ELSE Z_STREAM_END)))

\* deflate(): the trailer and the final return
DeflateTrailer(z) ==
    IF z.wrap <= 0 THEN Return(z, Z_STREAM_END)
    ELSE
        LET z1 == IF z.wrap = 2
                  THEN put_byte(put_byte(put_byte(put_byte(
                       put_byte(put_byte(put_byte(put_byte(z,
                           z.adler.lo % 256), z.adler.lo \div 256),
                           z.adler.hi % 256), z.adler.hi \div 256),
                           z.total_in % 256), (z.total_in \div 256) % 256),
                           (z.total_in \div 65536) % 256), 0)
                  ELSE putShortMSB(putShortMSB(z, z.adler.hi), z.adler.lo)
        IN  Let(flush_pending([z1 EXCEPT !.trailers = @ + 1]), LAMBDA z2 :
            Let(IF z2.wrap > 0 THEN [z2 EXCEPT !.wrap = 0 - z2.wrap] ELSE z2, LAMBDA z3 :
            Return(z3, IF Len(z3.pending) # 0 THEN Z_OK ELSE Z_STREAM_END)))

DeflateMarker_keep(z, flush) ==
    IF flush = Z_PARTIAL_FLUSH THEN tr_align(z)
    ELSE IF flush # Z_BLOCK THEN
        Let(tr_stored_block(z, 0 - 1, 0, 0), LAMBDA z1 :
        IF flush = Z_FULL_FLUSH
        THEN [z1 EXCEPT !.full_point = z1.total_in - z1.lookahead]
        ELSE z1)
    ELSE z

\* deflate(): the flush marker written once the tokenizer reports block_done
DeflateMarker(z, flush) ==
    IF flush = Z_PARTIAL_FLUSH THEN tr_align(z)
    ELSE IF flush # Z_BLOCK THEN
        Let(tr_stored_block(z, 0 - 1, 0, 0), LAMBDA z1 :
        IF flush = Z_FULL_FLUSH
        THEN Let([CLEAR_HASH(z1) EXCEPT
                     !.full_point = z1.total_in - z1.lookahead], LAMBDA z2 :
             IF z2.lookahead = 0
             THEN [z2 EXCEPT !.strstart = 0, !.block_start = 0, !.insert = 0]
             ELSE z2)
        ELSE z1)
    ELSE z

\* deflate(): start a new block or continue the current one
DeflateBlock(z, flush) ==
    IF z.avail_in # 0 \/ z.lookahead # 0
       \/ (flush # Z_NO_FLUSH /\ z.status # "FINISH")
    THEN
        Let(IF z.strategy = Z_HUFFMAN_ONLY THEN deflate_huff(z, flush)
            ELSE IF z.strategy = Z_RLE THEN deflate_rle(z, flush)
            ELSE IF configuration_table[z.level].func = "deflate_stored"
                 THEN deflate_stored(z, flush)
            ELSE IF configuration_table[z.level].func = "deflate_fast"
                 THEN deflate_fast(z, flush)
            ELSE deflate_slow(z, flush), LAMBDA t :
        Let(t.bs, LAMBDA bstate :
        Let(IF bstate \in {"finish_started", "finish_done"}
            THEN [t EXCEPT !.status = "FINISH"] ELSE t, LAMBDA z1 :
        IF bstate \in {"need_more", "finish_started"}
        THEN Return(IF z1.avail_out = 0 THEN [z1 EXCEPT !.last_flush = 0 - 1]
                    ELSE z1, Z_OK)
        ELSE
        Let(IF bstate = "block_done" THEN flush_pending(DeflateMarker(z1, flush))
            ELSE z1, LAMBDA z2 :
        IF bstate = "block_done" /\ z2.avail_out = 0
        THEN Return([z2 EXCEPT !.last_flush = 0 - 1], Z_OK)
        ELSE IF flush # Z_FINISH THEN Return(z2, Z_OK)
        ELSE DeflateTrailer(z2)))))
    ELSE IF flush # Z_FINISH THEN Return(z, Z_OK)
    ELSE DeflateTrailer(z)

\* one pass of a loop that copies a field of gzhead to pending_buf.  r.put
\* holds the bytes written since `beg`, which the header crc takes in
\* before they are flushed; a full buffer that flush_pending cannot drain
\* ends the loop with val = 1
GzFieldStep(r, field) ==
    LET full == Len(r.z.pending) = r.z.pending_buf_size
        z1 == IF full /\ r.z.gzhead.hcrc # 0 /\ r.put # <<>>
              THEN [r.z EXCEPT !.adler = crc32(@, r.put)] ELSE r.z
        z2 == IF full THEN flush_pending(z1) ELSE z1
        put == IF full THEN <<>> ELSE r.put
    IN  IF full /\ Len(z2.pending) = z2.pending_buf_size
        THEN [z |-> z2, put |-> put, val |-> 1, stuck |-> TRUE]
        ELSE [z |-> [put_byte(z2, field[z2.gzindex + 1]) EXCEPT !.gzindex = @ + 1],
              put |-> Append(put, field[z2.gzindex + 1]),
              val |-> field[z2.gzindex + 1], stuck |-> FALSE]

\* if (s->gzhead->hcrc && s->pending > beg) after the loop
GzFieldCrc(r) ==
    IF r.z.gzhead.hcrc # 0 /\ r.put # <<>>
    THEN [r.z EXCEPT !.adler = crc32(@, r.put)] ELSE r.z

\* deflate(): EXTRA_STATE
GzExtra(z) ==
    IF z.status # "EXTRA" THEN z
    ELSE IF z.gzhead.extra_null THEN [z EXCEPT !.status = "NAME"]
    ELSE Let(Repeat(LAMBDA r : GzFieldStep(r, z.gzhead.extra),
                    LAMBDA r : r.stuck
                               \/ r.z.gzindex >= Len(z.gzhead.extra) % 65536,
                    [z |-> z, put |-> <<>>, val |-> 0, stuck |-> FALSE],
                    Len(z.gzhead.extra) + 1), LAMBDA r :
         Let(GzFieldCrc(r), LAMBDA z1 :
         IF z1.gzindex = Len(z.gzhead.extra)
         THEN [z1 EXCEPT !.gzindex = 0, !.status = "NAME"]
         ELSE z1))

\* the do-while of NAME_STATE and COMMENT_STATE: it ends on the
\* terminating zero of the string
GzString(z, str) ==
    Repeat(LAMBDA r : GzFieldStep(r, str),
           LAMBDA r : r.stuck \/ r.val = 0,
           GzFieldStep([z |-> z, put |-> <<>>, val |-> 1, stuck |-> FALSE], str),
           Len(str))

\* deflate(): NAME_STATE
GzName(z) ==
    IF z.status # "NAME" THEN z
    ELSE IF z.gzhead.name = <<>> THEN [z EXCEPT !.status = "COMMENT"]
    ELSE Let(GzString(z, z.gzhead.name), LAMBDA r :
         Let(GzFieldCrc(r), LAMBDA z1 :
         IF r.val = 0 THEN [z1 EXCEPT !.gzindex = 0, !.status = "COMMENT"]
         ELSE z1))

\* deflate(): COMMENT_STATE
GzComment(z) ==
    IF z.status # "COMMENT" THEN z
    ELSE IF z.gzhead.comment = <<>> THEN [z EXCEPT !.status = "HCRC"]
    ELSE Let(GzString(z, z.gzhead.comment), LAMBDA r :
         Let(GzFieldCrc(r), LAMBDA z1 :
         IF r.val = 0 THEN [z1 EXCEPT !.status = "HCRC"]
         ELSE z1))

\* deflate(): HCRC_STATE
GzHcrc(z) ==
    IF z.status # "HCRC" THEN z
    ELSE IF z.gzhead.hcrc = 0 THEN [z EXCEPT !.status = "BUSY"]
    ELSE Let(IF Len(z.pending) + 2 > z.pending_buf_size THEN flush_pending(z)
             ELSE z, LAMBDA z1 :
         IF Len(z1.pending) + 2 <= z1.pending_buf_size
         THEN [put_byte(put_byte(z1, z1.adler.lo % 256), z1.adler.lo \div 256)
                  EXCEPT !.adler = crc32_init, !.status = "BUSY"]
         ELSE z1)

\* deflate() from l.905 on: the arguments have been accepted
DeflateRun(z, flush) ==
        LET old_flush == z.last_flush
        IN  Let(GzHcrc(GzComment(GzName(GzExtra(
                    DeflateHeader([z EXCEPT !.last_flush = flush]))))), LAMBDA z1 :
            Let(IF Len(z1.pending) # 0 THEN flush_pending(z1) ELSE z1, LAMBDA z2 :
            IF Len(z1.pending) # 0 /\ z2.avail_out = 0
            THEN Return([z2 EXCEPT !.last_flush = 0 - 1], Z_OK)
            ELSE IF Len(z1.pending) = 0 /\ z2.avail_in = 0
                    /\ RANK(flush) <= RANK(old_flush) /\ flush # Z_FINISH
            THEN Return(z2, Z_BUF_ERROR)
            ELSE IF z2.status = "FINISH" /\ z2.avail_in # 0
            THEN Return(z2, Z_BUF_ERROR)
            ELSE DeflateBlock(z2, flush)))

\* a deflate() that does not test next_in before it reads the input
deflate_reads_null(z, flush) ==
    IF z.strm_null \/ z.state = Z_NULL \/ flush > Z_BLOCK \/ flush < 0
    THEN Return(z, Z_STREAM_ERROR)
    ELSE IF z.out_null \/ (z.status = "FINISH" /\ flush # Z_FINISH)
    THEN Return(z, Z_STREAM_ERROR)
    ELSE IF z.avail_out = 0 THEN Return(z, Z_BUF_ERROR)
    ELSE DeflateRun(z, flush)

deflate(z, flush) ==
    IF z.strm_null \/ z.state = Z_NULL \/ flush > Z_BLOCK \/ flush < 0
    THEN Return(z, Z_STREAM_ERROR)
    ELSE IF z.out_null \/ (z.in_null /\ z.avail_in # 0)
            \/ (z.status = "FINISH" /\ flush # Z_FINISH)
    THEN Return(z, Z_STREAM_ERROR)
    ELSE IF z.avail_out = 0 THEN Return(z, Z_BUF_ERROR)
    ELSE DeflateRun(z, flush)

deflateParams(z, level, strategy) ==
    IF level < 0 \/ level > 9 \/ strategy < 0 \/ strategy > Z_FIXED
    THEN Return(z, Z_STREAM_ERROR)
    ELSE
        LET func == configuration_table[z.level].func
            flushing == (strategy # z.strategy
                         \/ func # configuration_table[level].func)
                        /\ z.total_in # 0
            c == configuration_table[level]
        IN  Let(IF flushing THEN deflate(z, Z_BLOCK) ELSE z, LAMBDA z1 :
            Let(IF ~flushing THEN Z_OK
                ELSE IF z1.ret = Z_BUF_ERROR /\ Len(z1.pending) = 0 THEN Z_OK
                ELSE z1.ret, LAMBDA err :
            Let(IF z1.level # level
                THEN [z1 EXCEPT !.level = level,
                                !.max_lazy_match = c.max_lazy,
                                !.good_match = c.good_length,
                                !.nice_match = c.nice_length,
                                !.max_chain_length = c.max_chain]
                ELSE z1, LAMBDA z2 :
            Return([z2 EXCEPT !.strategy = strategy], err))))

\* the four search parameters are taken as they come, with no range check
deflateTune(z, good_length, max_lazy, nice_length, max_chain) ==
    IF z.strm_null \/ z.state = Z_NULL THEN Return(z, Z_STREAM_ERROR)
    ELSE Return([z EXCEPT !.good_match = good_length,
                          !.max_lazy_match = max_lazy,
                          !.nice_match = nice_length,
                          !.max_chain_length = max_chain], Z_OK)

(* ------------------------------------------------------------------ *)
(* Decoder: what an inflater makes of the delivered output            *)
(* ------------------------------------------------------------------ *)
Bad == 0 - 1

\* len bytes copied from dist back, the copy overlapping its own output
CopyMatch(acc, len, dist) ==
    IF dist < 1 \/ dist > Len(acc) THEN Append(acc, Bad)
    ELSE [i \in 1..(Len(acc) + len) |->
             IF i <= Len(acc) THEN acc[i]
             ELSE acc[Len(acc) - dist + 1 + ((i - Len(acc) - 1) % dist)]]

\* one unit of the output.  mode: "top" between blocks, "codes" inside a
\* coded block, "len" on the four LEN/NLEN bytes of a stored block, "raw"
\* on its bytes (n counts them down), "bad" on a malformed stream
InflateStep(units, d) ==
    LET u == units[d.i]
        go(mode, n, raw, acc) ==
            [i |-> d.i + 1, mode |-> mode, n |-> n, raw |-> raw, acc |-> acc]
        bad == go("bad", 0, 0, Append(d.acc, Bad))
    IN  CASE d.mode = "top" ->
               IF u[1] = "block" THEN go("codes", 0, 0, d.acc)
               ELSE IF u[1] = "stored" THEN go("len", 4, u[3], d.acc)
               ELSE go("top", 0, 0, d.acc)
          [] d.mode = "codes" ->
               IF u[1] = "eob" THEN go("top", 0, 0, d.acc)
               ELSE IF u[1] = "lit" THEN go("codes", 0, 0, Append(d.acc, u[2]))
               ELSE IF u[1] = "match"
                    THEN go("codes", 0, 0, CopyMatch(d.acc, u[2], u[3]))
               ELSE bad
          [] d.mode = "len" ->
               IF u[1] # "byte" THEN bad
               ELSE IF d.n > 1 THEN go("len", d.n - 1, d.raw, d.acc)
               ELSE IF d.raw = 0 THEN go("top", 0, 0, d.acc)
               ELSE go("raw", d.raw, 0, d.acc)
          [] d.mode = "raw" ->
               IF u[1] # "byte" THEN bad
               ELSE go(IF d.n = 1 THEN "top" ELSE "raw", d.n - 1, 0,
                       Append(d.acc, u[2]))
          [] OTHER -> d

\* the bytes an inflater recovers from the units delivered
Inflate(units) ==
    Repeat(LAMBDA d : InflateStep(units, d),
           LAMBDA d : d.i > Len(units) \/ d.mode = "bad",
           [i |-> 1, mode |-> "top", n |-> 0, raw |-> 0, acc |-> <<>>],
           Len(units)).acc

\* the tokens replayed in order: a literal appends its byte, a match
\* copies length bytes from distance back
ReplayTokens(toks) ==
    Repeat(LAMBDA d : [i |-> d.i + 1,
                       acc |-> IF toks[d.i][1] = "lit" THEN Append(d.acc, toks[d.i][2])
                               ELSE CopyMatch(d.acc, toks[d.i][2], toks[d.i][3])],
           LAMBDA d : d.i > Len(toks),
           [i |-> 1, acc |-> <<>>],
           Len(toks)).acc

(* ------------------------------------------------------------------ *)
(* The caller                                                         *)
(* ------------------------------------------------------------------ *)
VARIABLES strm, twin, op, calls

vars == <<strm, twin, op, calls>>

\* locals of the functions die with the call
EndCall(z) ==
    [z EXCEPT !.hash_head = 0, !.lm_ret = 0, !.n_read = 0, !.bflush = FALSE,
              !.bs = "none"]

\* bytes the caller has handed over so far
Supplied(z) == z.next_in + z.avail_in

Remaining(z) == Len(z.in_data) - Supplied(z)

\* all byte strings over Alphabet of at most n bytes
RECURSIVE Strings(_)
Strings(n) ==
    IF n = 0 THEN {<<>>}
    ELSE LET shorter == Strings(n - 1)
         IN  shorter \cup {Append(q, c) : q \in {r \in shorter : Len(r) = n - 1},
                                          c \in Alphabet}

\* n bytes that repeat with period p
Pattern(p, n) == SubSeq([i \in 1..n |-> 97 + ((i - 1) % p)], 1, n)

\* ample output space: never the reason a call returns
Ample == 4096

DefaultMemLevel == 8

\* what creation is asked for (level, strategy, windowBits), what the
\* allocator left where hash_shift lies (shift), which window filler the
\* machine resolves to (vector)
Setup(level, strategy, wb, shift, vector) ==
    [level |-> level, strategy |-> strategy, wb |-> wb, shift |-> shift,
     vector |-> vector]

Fresh(g, data, c) ==
    EndCall(deflateInit2_(RawContext(g, c.shift, c.vector, data),
                          c.level, c.wb, DefaultMemLevel, c.strategy))

\* one deflate() call: the caller extends the input view by k_in bytes and
\* offers an output view of k_out bytes
Call(z, flush, k_in, k_out) ==
    EndCall(deflate([z EXCEPT !.avail_in = @ + k_in, !.avail_out = k_out], flush))

\* what the last call was, how many bytes it delivered, and the context
\* it found
OpOf(name, z, z1, flush, k_out) ==
    [name |-> name, flush |-> flush, ret |-> z1.ret, avail_out |-> k_out,
     emitted |-> Len(z1.out) - Len(z.out),
     before |-> [ret |-> z.ret, status |-> z.status, wrap |-> z.wrap,
                 total_in |-> z.total_in,
                 level |-> z.level, strategy |-> z.strategy,
                 lookahead |-> z.lookahead,
                 match_available |-> z.match_available,
                 last_lit |-> Len(z.l_buf)]]

NoOp == OpOf("init", RawContext(0, 0, FALSE, <<>>), RawContext(0, 0, FALSE, <<>>), 0, 0)

Process(flush, k_in, k_out) ==
    /\ k_in <= Remaining(strm)
    /\ strm' = Call(strm, flush, k_in, k_out)
    /\ op' = OpOf("process", strm, strm', flush, k_out)

\* the tokens of a context's history, without their positions
Tokens(z) == [i \in 1..Len(z.toks) |-> <<z.toks[i][1], z.toks[i][2], z.toks[i][3]>>]

(* ------------------------------------------------------------------ *)
(* Sessions fed in chunks: flush=none between, finish on the last.    *)
(* twin is the same input compressed by one finish call.              *)
(* ------------------------------------------------------------------ *)
\* every tokenizer, every wrapper, both window fillers, and a hash_shift
\* below, inside and beyond hash_bits
Setups ==
    {Setup(0, Z_DEFAULT_STRATEGY, 9, 5, TRUE),
     Setup(2, Z_DEFAULT_STRATEGY, 9, 0, TRUE),
     Setup(2, Z_DEFAULT_STRATEGY, 0 - 9, 16, FALSE),
     Setup(6, Z_DEFAULT_STRATEGY, 25, 5, TRUE),
     Setup(6, Z_DEFAULT_STRATEGY, 9, 0, FALSE),
     Setup(6, Z_FILTERED, 0 - 9, 16, TRUE),
     Setup(2, Z_RLE, 9, 5, FALSE),
     Setup(6, Z_HUFFMAN_ONLY, 25, 0, TRUE)}

\* short periodic inputs, long enough to hold a match
MaxPat == 8
MaxPeriod == 2
Zeros(n) == [i \in 1..n |-> 0]
Patterns ==
    {Pattern(p, n) \o t : p \in 1..MaxPeriod, n \in (MaxLen + 1)..MaxPat,
                          t \in {<<>>, <<0>>}}
        \cup {Zeros(n) : n \in (MaxLen + 1)..MaxPat}

\* inputs long enough for the tokenizers to run before the last chunk
LongLen == 300
LongChunk == 263
LongInputs == {Pattern(1, LongLen), Pattern(4, LongLen)}

ChunkInputs == Strings(MaxLen) \cup Patterns \cup LongInputs

\* where the caller may cut the input still to come
Cuts(z) == IF Len(z.in_data) > MaxPat THEN {1, LongChunk} ELSE 1..MaxPat

InitChunks ==
    /\ \E S \in ChunkInputs, c \in Setups :
          /\ strm = Fresh(0, S, c)
          /\ twin = Call(Fresh(0, S, c), Z_FINISH, Len(S), Ample)
    /\ op = NoOp
    /\ calls = 0

Feed ==
    /\ calls < MaxCalls
    /\ \E k \in Cuts(strm) : k < Remaining(strm) /\ Process(Z_NO_FLUSH, k, Ample)
    /\ calls' = calls + 1
    /\ UNCHANGED twin

Finish ==
    /\ calls < MaxCalls
    /\ strm.ret # Z_STREAM_END
    /\ Process(Z_FINISH, Remaining(strm), Ample)
    /\ calls' = calls + 1
    /\ UNCHANGED twin

NextChunks == Feed \/ Finish

SpecChunks == InitChunks /\ [][NextChunks]_vars

\* the matches among the tokens of a context's history
Matches(z) == {i \in 1..Len(z.toks) : z.toks[i][1] = "match"}

\* the tokenizer that runs on a context
Tokenizer(z) ==
    IF z.strategy = Z_HUFFMAN_ONLY THEN "deflate_huff"
    ELSE IF z.strategy = Z_RLE THEN "deflate_rle"
    ELSE configuration_table[z.level].func

\* the session of z has ended and what it emitted replays to its input:
\* the tokens tallied (level 0 copies its input in stored blocks and
\* tallies none), and the units delivered
Replays(z) ==
    z.ret = Z_STREAM_END
        => /\ Tokenizer(z) # "deflate_stored" => ReplayTokens(z.toks) = z.in_data
           /\ Inflate(z.out) = z.in_data

\* C1: once streamEnd is returned, replaying the emitted tokens in order (a
\* literal appends its byte, a match copies length bytes from distance
\* back) gives the input S, for every split of S into chunks fed with
\* flush=none and finish on the last, at every level and strategy
C1_RoundTrip ==
    Replays(strm) /\ Replays(twin)

\* a chunked session has ended and its tokens hold a match
C1_Witness ==
    /\ strm.ret = Z_STREAM_END
    /\ calls >= 3
    /\ Matches(strm) # {}
    /\ ReplayTokens(strm.toks) = strm.in_data

C8_ChunkInvariant ==
    strm.ret = Z_STREAM_END => Tokens(strm) = Tokens(twin)


(* ------------------------------------------------------------------ *)
(* Sessions with small output views.  A call that returns with its    *)
(* view exhausted is repeated with the same flush mode and no new     *)
(* input.  twin takes the same chunks and flush modes with ample      *)
(* output space.  calls counts the chunks, not the repeats.           *)
(* ------------------------------------------------------------------ *)
PartSetups ==
    { Setup(0, Z_DEFAULT_STRATEGY, 25, 5, TRUE),
      Setup(2, Z_DEFAULT_STRATEGY, 9, 5, FALSE),
      Setup(6, Z_DEFAULT_STRATEGY, -9, 5, TRUE),
      Setup(6, Z_RLE, 25, 5, TRUE) }

MaxPartLen == 1
PartInputs == Strings(MaxPartLen) \cup {Pattern(1, MaxPat)}

\* the output views the caller offers
OutViews == {1, 4}

\* the session stops growing past this much output
MaxOut == 30

MaxSteps == 2

Flushes == {Z_NO_FLUSH, Z_PARTIAL_FLUSH, Z_SYNC_FLUSH, Z_FULL_FLUSH, Z_FINISH}

\* the last call stopped for want of output space
Exhausted(z) == op.name = "process" /\ z.ret = Z_OK /\ z.avail_out = 0

InitPartition ==
    /\ \E S \in PartInputs, c \in PartSetups :
          /\ strm = Fresh(0, S, c)
          /\ twin = Fresh(0, S, c)
    /\ op = NoOp
    /\ calls = 0

Step ==
    /\ calls < MaxSteps
    /\ ~Exhausted(strm)
    /\ strm.status # "FINISH"
    /\ \E flush \in Flushes, k_in \in 0..MaxPat, k_out \in OutViews :
          /\ flush = Z_FINISH => k_in = Remaining(strm)
          /\ k_in \in (IF calls = 0 THEN {1} ELSE {}) \cup {Remaining(strm)}
          /\ Process(flush, k_in, k_out)
          /\ twin' = Call(twin, flush, k_in, Ample)
    /\ calls' = calls + 1

Again ==
    /\ Exhausted(strm)
    /\ Len(strm.out) < MaxOut
    /\ \E k_out \in OutViews : Process(op.flush, 0, k_out)
    /\ UNCHANGED <<twin, calls>>

FinishAgain ==
    /\ strm.status = "FINISH"
    /\ strm.ret \in {Z_STREAM_END, Z_BUF_ERROR}
    /\ \E k_out \in OutViews \cup {0} : Process(Z_FINISH, 0, k_out)
    /\ UNCHANGED <<twin, calls>>

NextPartition == Step \/ Again \/ FinishAgain

SpecPartition == InitPartition /\ [][NextPartition]_vars

\* C3: for the same chunks and flush modes the delivered bytes are the
\* same for every partition of the output space, a call that exhausts its
\* view being repeated with the same flush mode
C3_PartitionInvariant ==
    ~Exhausted(strm) => strm.out = twin.out

\* C4: when process returns streamEnd nothing is left in the pending
\* buffer nor in the bit accumulator
C4_StreamEndDrained ==
    (op.name = "process" /\ op.ret = Z_STREAM_END)
        => Len(strm.pending) = 0 /\ Len(strm.bi_buf) = 0

\* streamEnd came from a call that delivered the last bytes of a trailer
\* begun in an earlier call
C4_Witness ==
    /\ op.name = "process" /\ op.ret = Z_STREAM_END
    /\ op.before.ret = Z_OK /\ op.before.status = "FINISH" /\ op.before.wrap < 0
    /\ op.emitted > 0
    /\ Len(strm.pending) = 0

\* the call just made repeats finish right after streamEnd
RepeatsFinish ==
    /\ op.name = "process" /\ op.flush = Z_FINISH
    /\ op.before.ret = Z_STREAM_END /\ strm.wrap # 0

\* the trailer of a wrapped stream is written at most once, after the final
\* block and all the input, and exactly once when streamEnd is returned
TrailerOnce ==
    /\ strm.trailers <= 1
    /\ strm.trailers = 1 =>
          /\ strm.status = "FINISH" /\ strm.avail_in = 0 /\ strm.lookahead = 0
          /\ strm.total_in = Supplied(strm)
    /\ (strm.ret = Z_STREAM_END /\ strm.wrap # 0) => strm.trailers = 1

FlushSetups ==
    { Setup(2, Z_DEFAULT_STRATEGY, 9, 5, FALSE),
      Setup(6, Z_DEFAULT_STRATEGY, -9, 0, TRUE),
      Setup(6, Z_RLE, 25, 16, TRUE) }

\* inputs that leave room for a match on either side of a flush point
FlushInputs == {Pattern(p, n) : p \in 1..MaxPeriod, n \in {MaxPat + 1, 2 * MaxPat}}

MaxFlushCalls == 3

InitFlush ==
    /\ \E S \in FlushInputs, c \in FlushSetups :
          /\ strm = Fresh(0, S, c)
          /\ twin = Fresh(0, S, c)
    /\ op = NoOp
    /\ calls = 0

FlushPoint ==
    /\ calls < MaxFlushCalls
    /\ strm.status # "FINISH"
    /\ \E flush \in Flushes \ {Z_FINISH}, k_in \in {1, MaxPat} :
          /\ k_in < Remaining(strm)
          /\ Process(flush, k_in, Ample)
    /\ calls' = calls + 1
    /\ UNCHANGED twin

FlushFinish ==
    /\ strm.status # "FINISH"
    /\ Process(Z_FINISH, Remaining(strm), Ample)
    /\ calls' = calls + 1
    /\ UNCHANGED twin

NextFlush == FlushPoint \/ FlushFinish

SpecFlush == InitFlush /\ [][NextFlush]_vars

\* C5: after a completed full flush every later match has its source at or
\* after the flush point (full_point: the input consumed when the marker
\* was written)
C5_FullFlushForgets ==
    \A i \in Matches(strm) :
        strm.toks[i][4] >= strm.full_point
            => strm.toks[i][4] - strm.toks[i][3] >= strm.full_point

\* a match was emitted after a full flush that followed a match
C5_Witness ==
    /\ strm.full_point > 0
    /\ \E i \in Matches(strm) : strm.toks[i][4] >= strm.full_point
    /\ \E i \in Matches(strm) : strm.toks[i][4] < strm.full_point

\* the call just made is a flush that returned ok with output space left
FlushReturned ==
    /\ op.name = "process" /\ op.ret = Z_OK
    /\ op.flush \in {Z_PARTIAL_FLUSH, Z_SYNC_FLUSH, Z_FULL_FLUSH}
    /\ strm.avail_out > 0

\* C7: when process with flush partial, sync or full returns ok with
\* output space left, all input supplied has been tokenized and its block
\* closed and delivered
C7_FlushComplete ==
    FlushReturned
        => /\ strm.avail_in = 0 /\ strm.lookahead = 0
           /\ strm.match_available = 0
           /\ Len(strm.l_buf) = 0 /\ Len(strm.pending) = 0

(* ------------------------------------------------------------------ *)
(* Sessions that change level and strategy on the way.                *)
(* ------------------------------------------------------------------ *)
ParamSetups ==
    { Setup(6, Z_DEFAULT_STRATEGY, 9, 5, TRUE),
      Setup(2, Z_DEFAULT_STRATEGY, -9, 5, FALSE),
      Setup(0, Z_DEFAULT_STRATEGY, 25, 5, TRUE) }

ParamInputs == {Pattern(1, 1), Pattern(1, MaxPat), Pattern(1, LongLen)}

\* the levels and strategies setParams is asked for
ParamLevels == {0, 2, 6}
ParamStrategies == {Z_DEFAULT_STRATEGY, Z_RLE, Z_HUFFMAN_ONLY}

MaxParamCalls == 3

InitParams ==
    /\ \E S \in ParamInputs, c \in ParamSetups :
          /\ strm = Fresh(0, S, c)
          /\ twin = Fresh(0, S, c)
    /\ op = NoOp
    /\ calls = 0

ParamsProcess ==
    /\ calls < MaxParamCalls
    /\ strm.status # "FINISH"
    /\ \E flush \in {Z_NO_FLUSH, Z_SYNC_FLUSH, Z_FINISH},
          k_in \in {1, LongChunk, Remaining(strm)} :
          /\ flush = Z_FINISH => k_in = Remaining(strm)
          /\ Process(flush, k_in, Ample)
    /\ calls' = calls + 1
    /\ UNCHANGED twin

\* setParams: the caller offers an output view of k_out bytes, maybe none
SetParams ==
    /\ calls < MaxParamCalls
    /\ strm.status # "FINISH"
    /\ \E level \in ParamLevels, strategy \in ParamStrategies, k_out \in {0, Ample} :
          /\ strm' = EndCall(deflateParams([strm EXCEPT !.avail_out = k_out],
                                            level, strategy))
          /\ op' = OpOf("params", strm, strm', Z_BLOCK, k_out)
    /\ calls' = calls + 1
    /\ UNCHANGED twin

NextParams == ParamsProcess \/ SetParams

SpecParams == InitParams /\ [][NextParams]_vars

\* the call just made is a setParams that changed the strategy or the
\* tokenizer after input had been consumed
Switched ==
    /\ op.name = "params" /\ op.before.total_in # 0
    /\ \/ strm.strategy # op.before.strategy
       \/ configuration_table[strm.level].func
              # configuration_table[op.before.level].func

\* C10: a setParams that changes the strategy or the tokenizer after input
\* has been consumed switches only once everything consumed is tokenized
\* and its block closed, also when called with no output space
C10_ParamsFlushed ==
    Switched => /\ strm.lookahead = 0 /\ strm.match_available = 0
                /\ Len(strm.l_buf) = 0

(* ------------------------------------------------------------------ *)
(* Two contexts created alike on memory with different contents, and  *)
(* driven by the same calls.                                          *)
(* ------------------------------------------------------------------ *)
AllocSetups ==
    { Setup(2, Z_DEFAULT_STRATEGY, 9, 5, TRUE),
      Setup(6, Z_DEFAULT_STRATEGY, 25, 5, FALSE),
      Setup(6, Z_RLE, -9, 5, TRUE) }

\* what the allocator may have left: in the bytes of the window, and where
\* hash_shift lies
Garbage == {0, 97}
Shifts == {0, 5, 16}

InitAlloc ==
    /\ \E S \in Patterns \cup LongInputs, c \in AllocSetups,
          g \in Garbage, sh \in Shifts :
          /\ strm = Fresh(0, S, c)
          /\ twin = Fresh(g, S, [c EXCEPT !.shift = sh])
    /\ op = NoOp
    /\ calls = 0

AllocFeed ==
    /\ calls < MaxCalls
    /\ \E k \in Cuts(strm) :
          /\ k < Remaining(strm)
          /\ Process(Z_NO_FLUSH, k, Ample)
          /\ twin' = Call(twin, Z_NO_FLUSH, k, Ample)
    /\ calls' = calls + 1

AllocFinish ==
    /\ strm.ret # Z_STREAM_END
    /\ Process(Z_FINISH, Remaining(strm), Ample)
    /\ twin' = Call(twin, Z_FINISH, Remaining(twin), Ample)
    /\ calls' = calls + 1

NextAlloc == AllocFeed \/ AllocFinish

SpecAlloc == InitAlloc /\ [][NextAlloc]_vars

\* C9: the same input, parameters and calls on two fresh contexts give the
\* same output whatever the allocator's memory held
C9_AllocatorIndependent ==
    strm.out = twin.out

(* ------------------------------------------------------------------ *)
(* Preset dictionary                                                  *)
(* ------------------------------------------------------------------ *)
\* while (s->lookahead >= ACTUAL_MIN_MATCH) of deflateSetDictionary
DictLoop(z) ==
    Repeat(LAMBDA s :
               fill_window([bulk_insert_str(s, s.strstart,
                                            s.lookahead - (ACTUAL_MIN_MATCH - 1))
                            EXCEPT !.strstart = s.strstart + s.lookahead
                                                - (ACTUAL_MIN_MATCH - 1),
                                   !.lookahead = ACTUAL_MIN_MATCH - 1]),
           LAMBDA s : s.lookahead < ACTUAL_MIN_MATCH,
           z, z.avail_in + z.lookahead + 1)

\* deflateSetDictionary with a dictionary that is not Z_NULL: the
\* dictionary is read through the input view, which is put back afterwards
deflateSetDictionary(z, dictionary) ==
    IF z.strm_null \/ z.state = Z_NULL THEN Return(z, Z_STREAM_ERROR)
    ELSE IF z.wrap = 2 \/ (z.wrap = 1 /\ z.status # "INIT") \/ z.lookahead # 0
    THEN Return(z, Z_STREAM_ERROR)
    ELSE
    LET wrap == z.wrap
        long == Len(dictionary) >= z.w_size
        tail == IF long
                THEN SubSeq(dictionary, Len(dictionary) - z.w_size + 1, Len(dictionary))
                ELSE dictionary
    IN  Let([z EXCEPT !.adler = IF wrap = 1 THEN adler32(z.adler, dictionary) ELSE @,
                      !.wrap = 0], LAMBDA z0 :
        Let(IF long /\ wrap = 0
            THEN [CLEAR_HASH(z0) EXCEPT !.strstart = 0, !.block_start = 0,
                                        !.insert = 0]
            ELSE z0, LAMBDA z1 :
        Let(fill_window([z1 EXCEPT !.in_data = tail, !.next_in = 0,
                                   !.avail_in = Len(tail)]), LAMBDA z2 :
        Let(DictLoop(z2), LAMBDA z3 :
        Return([z3 EXCEPT !.strstart = z3.strstart + z3.lookahead,
                          !.block_start = z3.strstart + z3.lookahead,
                          !.insert = z3.lookahead,
                          !.lookahead = 0,
                          !.match_length = ACTUAL_MIN_MATCH - 1,
                          !.prev_length = ACTUAL_MIN_MATCH - 1,
                          !.match_available = 0,
                          !.next_in = z.next_in,
                          !.avail_in = z.avail_in,
                          !.in_data = z.in_data,
                          !.wrap = wrap], Z_OK)))))

(* ------------------------------------------------------------------ *)
(* Sessions that preset a dictionary: strm is the context, twin the   *)
(* context as the last call found it.                                 *)
(* ------------------------------------------------------------------ *)
DictSetups ==
    { Setup(6, Z_DEFAULT_STRATEGY, 0 - 9, 5, TRUE),
      Setup(6, Z_DEFAULT_STRATEGY, 9, 5, FALSE),
      Setup(2, Z_DEFAULT_STRATEGY, 25, 5, TRUE) }

\* a dictionary of one byte, one that holds a match, one beyond w_size
LongDict == 516
Dictionaries == {<<97>>, Pattern(2, 6), Pattern(2, LongDict)}

MaxDictLen == 2
DictInputs == Strings(MaxDictLen) \cup {Pattern(2, MaxPat)}

MaxDictCalls == 3

\* what the last call was and returned; initial holds as long as no
\* process call has consumed input or produced output since creation or
\* the last reset
DictOp(name, ret, initial) == [name |-> name, ret |-> ret, initial |-> initial]

InitDict ==
    /\ \E S \in DictInputs, c \in DictSetups : strm = Fresh(0, S, c)
    /\ twin = strm
    /\ op = DictOp("init", Z_OK, TRUE)
    /\ calls = 0

DictProcess ==
    /\ calls < MaxDictCalls
    /\ \E flush \in {Z_NO_FLUSH, Z_SYNC_FLUSH, Z_FINISH},
          k \in {0, 1, Remaining(strm)} :
          /\ k <= Remaining(strm)
          /\ (flush = Z_FINISH) => (k = Remaining(strm))
          /\ strm' = Call(strm, flush, k, Ample)
    /\ twin' = strm
    /\ op' = DictOp("process", strm'.ret,
                    op.initial /\ strm'.total_in = strm.total_in
                               /\ strm'.out = strm.out)
    /\ calls' = calls + 1

SetDictionary ==
    /\ calls < MaxDictCalls
    /\ \E d \in Dictionaries : strm' = EndCall(deflateSetDictionary(strm, d))
    /\ twin' = strm
    /\ op' = DictOp("dictionary", strm'.ret, op.initial)
    /\ calls' = calls + 1

DictReset ==
    /\ calls < MaxDictCalls
    /\ op.name # "init"
    /\ strm' = EndCall(Return(deflateReset(strm), Z_OK))
    /\ twin' = strm
    /\ op' = DictOp("reset", Z_OK, TRUE)
    /\ calls' = calls + 1

NextDict == DictProcess \/ SetDictionary \/ DictReset

SpecDict == InitDict /\ [][NextDict]_vars

\* C11: setDictionary on a context that is not in its initial state returns
\* streamError and changes nothing, whatever the wrapper
C11_DictOnlyInitial ==
    (op.name = "dictionary" /\ ~op.initial)
        => (strm.ret = Z_STREAM_ERROR /\ strm = [twin EXCEPT !.ret = Z_STREAM_ERROR])

\* a context that a process call has worked on takes a dictionary: a raw
\* one between blocks, a wrapped one after its trailer
C11_Witness ==
    /\ op.name = "dictionary"
    /\ ~op.initial
    /\ twin.wrap = 0
    /\ strm.ret = Z_OK
    /\ strm.strstart # twin.strstart

\* C12: a successful setDictionary emits nothing and leaves the input view,
\* the output view and the counters of bytes taken and delivered as they were
C12_DictFrame ==
    (op.name = "dictionary" /\ strm.ret = Z_OK)
        => /\ strm.out = twin.out
           /\ strm.avail_out = twin.avail_out
           /\ strm.next_in = twin.next_in
           /\ strm.avail_in = twin.avail_in
           /\ strm.in_data = twin.in_data
           /\ strm.total_out = twin.total_out
           /\ strm.total_in = twin.total_in

\* the dictionary was counted as input
C12_Witness ==
    /\ op.name = "dictionary"
    /\ strm.ret = Z_OK
    /\ strm.total_in > twin.total_in
    /\ strm.next_in = twin.next_in

(* ------------------------------------------------------------------ *)
(* Release and copy                                                   *)
(* ------------------------------------------------------------------ *)
\* deflateEnd: the buffers and the state object are freed
deflateEnd(z) ==
    IF z.strm_null \/ z.state = Z_NULL THEN Return(z, Z_STREAM_ERROR)
    ELSE Return([z EXCEPT !.state = Z_NULL],
                IF z.status = "BUSY" THEN Z_DATA_ERROR ELSE Z_OK)

\* what ZALLOC may answer to deflateCopy: every request granted, the state
\* object refused, or one of the four buffers refused
AllocOutcomes == {"ok", "no_state", "no_buffers"}

\* deflateCopy: dest first takes every field of the source z_stream, the
\* state pointer included; then the state object and the buffers are
\* allocated and filled from the source's
deflateCopy(dest, source, alloc) ==
    IF source.strm_null \/ dest.strm_null \/ source.state = Z_NULL
    THEN Return(dest, Z_STREAM_ERROR)
    ELSE IF alloc = "no_state" THEN Return(source, Z_MEM_ERROR)
    ELSE IF alloc = "no_buffers"
    THEN Return(deflateEnd([source EXCEPT !.state = CopyState]), Z_MEM_ERROR)
    ELSE Return([source EXCEPT !.state = CopyState], Z_OK)

\* the fields of z_stream; every other field lies in the state object
StreamFields ==
    {"next_in", "avail_in", "in_data", "in_null", "avail_out", "out", "out_null",
     "total_in", "total_out", "adler", "state", "strm_null", "ret"}

\* the context `other` when its state object is the one `z` has just worked on
SharedInto(other, z) ==
    [f \in DOMAIN other |-> IF f \in StreamFields THEN other[f] ELSE z[f]]

(* ------------------------------------------------------------------ *)
(* Sessions with a copy: strm is the source, twin the destination.    *)
(* op.other is the context the last call did not name, as it was      *)
(* before the call; op.live holds the state objects not yet freed.    *)
(* ------------------------------------------------------------------ *)
CopySetups ==
    { Setup(6, Z_DEFAULT_STRATEGY, 9, 5, TRUE),
      Setup(2, Z_DEFAULT_STRATEGY, 0 - 9, 5, FALSE) }

CopyInputs == Strings(MaxDictLen) \cup {Pattern(2, MaxPat)}

MaxCopyCalls == 4

CopyOp(name, target, ret, other, live) ==
    [name |-> name, target |-> target, ret |-> ret, other |-> other, live |-> live]

InitCopy ==
    /\ \E S \in CopyInputs, c \in CopySetups : strm = Fresh(0, S, c)
    /\ twin = RawContext(0, 0, FALSE, <<>>)
    /\ op = CopyOp("init", "none", Z_OK, twin, {OwnState})
    /\ calls = 0

\* a call on a context whose state object was freed reads freed memory:
\* it may find the object as it was, or fail
Dangling(z) == z.state # Z_NULL /\ z.state \notin op.live

SourceProcess ==
    /\ calls < MaxCopyCalls
    /\ \E flush \in {Z_NO_FLUSH, Z_SYNC_FLUSH, Z_FINISH}, k \in {1, Remaining(strm)} :
          /\ k <= Remaining(strm)
          /\ strm' \in {Call(strm, flush, k, Ample)}
                       \cup (IF Dangling(strm)
                             THEN {EndCall(Return(strm, Z_STREAM_ERROR))} ELSE {})
    /\ twin' = IF twin.state = strm.state THEN SharedInto(twin, strm') ELSE twin
    /\ op' = CopyOp("process", "source", strm'.ret, twin, op.live)
    /\ calls' = calls + 1

Copy ==
    /\ calls < MaxCopyCalls
    /\ twin.state = Z_NULL
    /\ ~Dangling(strm)
    /\ \E alloc \in AllocOutcomes :
          /\ twin' = EndCall(deflateCopy(twin, strm, alloc))
          /\ op' = CopyOp("copy", "copy", twin'.ret, strm,
                          IF alloc = "ok" THEN op.live \cup {CopyState} ELSE op.live)
    /\ strm' = strm
    /\ calls' = calls + 1

DestProcess ==
    /\ calls < MaxCopyCalls
    /\ twin.state # Z_NULL
    /\ \E flush \in {Z_NO_FLUSH, Z_SYNC_FLUSH, Z_FINISH}, k \in {1, Remaining(twin)} :
          /\ k <= Remaining(twin)
          /\ twin' \in {Call(twin, flush, k, Ample)}
                       \cup (IF Dangling(twin)
                             THEN {EndCall(Return(twin, Z_STREAM_ERROR))} ELSE {})
    /\ strm' = IF twin.state = strm.state THEN SharedInto(strm, twin') ELSE strm
    /\ op' = CopyOp("process", "dest", twin'.ret, strm, op.live)
    /\ calls' = calls + 1

DestEnd ==
    /\ calls < MaxCopyCalls
    /\ op.name # "init"
    /\ ~Dangling(twin)
    /\ twin' = EndCall(deflateEnd(twin))
    /\ strm' = strm
    /\ op' = CopyOp("end", "dest", twin'.ret, strm, op.live \ {twin.state})
    /\ calls' = calls + 1

SourceEnd ==
    /\ calls < MaxCopyCalls
    /\ ~Dangling(strm)
    /\ strm' = EndCall(deflateEnd(strm))
    /\ twin' = twin
    /\ op' = CopyOp("end", "source", strm'.ret, twin, op.live \ {strm.state})
    /\ calls' = calls + 1

NextCopy == SourceProcess \/ Copy \/ DestProcess \/ DestEnd \/ SourceEnd

SpecCopy == InitCopy /\ [][NextCopy]_vars

\* C13: after a copy attempt, whatever it returned, the destination has no
\* state object in common with the source, and a call on one of the two,
\* release included, leaves the other and its state object as they were
C13_CopyIsolated ==
    /\ (twin.state # Z_NULL => twin.state # strm.state)
    /\ (op.target = "dest"
           => strm = op.other /\ (strm.state # Z_NULL => strm.state \in op.live))
    /\ (op.target = "source"
           => twin = op.other /\ (twin.state # Z_NULL => twin.state \in op.live))

\* the copy was refused its state object and the destination was released
C13_Witness ==
    /\ op.name = "end"
    /\ op.target = "dest"
    /\ op.ret # Z_STREAM_ERROR
    /\ Dangling(strm)

(* ------------------------------------------------------------------ *)
(* Sessions with a reset: strm works on one input, is reset, and then *)
(* compresses a second input; twin is a fresh context with the same   *)
(* parameters that is given the second input by the same calls.       *)
(* ------------------------------------------------------------------ *)
ResetSetups ==
    { Setup(6, Z_DEFAULT_STRATEGY, 9, 16, TRUE),
      Setup(6, Z_DEFAULT_STRATEGY, 0 - 9, 5, FALSE),
      Setup(2, Z_DEFAULT_STRATEGY, 25, 16, TRUE),
      Setup(0, Z_DEFAULT_STRATEGY, 9, 5, FALSE) }

WorkLen == 16
WorkInputs == {Pattern(1, WorkLen), <<97, 0>>}

\* z, a.bb, cdea, cdea in a first chunk and x, a.bb in a second
TwoChunks == <<122, 97, 0, 98, 98, 99, 100, 101, 97, 99, 100, 101, 97,
               120, 97, 0, 98, 98>>
FirstChunk == 13
ResetInputs == {TwoChunks, Pattern(2, MaxPat), <<97>>, <<>>}

MaxResetCalls == 5

\* the caller starts over: new input, nothing delivered yet
NewSession(z, S) ==
    [z EXCEPT !.in_data = S, !.next_in = 0, !.avail_in = 0, !.out = <<>>,
              !.toks = <<>>, !.trailers = 0, !.full_point = 0]

ResetOp(name, phase, setup) == [name |-> name, phase |-> phase, setup |-> setup]

InitReset ==
    /\ \E S \in WorkInputs, c \in ResetSetups :
          /\ strm = Fresh(0, S, c)
          /\ op = ResetOp("init", "work", c)
    /\ twin = strm
    /\ calls = 0

Work ==
    /\ calls < MaxResetCalls
    /\ op.phase = "work"
    /\ \E flush \in {Z_NO_FLUSH, Z_SYNC_FLUSH, Z_FINISH}, k \in {1, Remaining(strm)} :
          /\ k <= Remaining(strm)
          /\ strm' = Call(strm, flush, k, Ample)
    /\ twin' = strm'
    /\ op' = ResetOp("process", "work", op.setup)
    /\ calls' = calls + 1

Reset ==
    /\ calls < MaxResetCalls
    /\ op.phase = "work"
    /\ \E S \in ResetInputs :
          /\ strm' = NewSession(EndCall(deflateReset(strm)), S)
          /\ twin' = Fresh(0, S, op.setup)
    /\ op' = ResetOp("reset", "full", op.setup)
    /\ calls' = calls + 1

ResetKeep ==
    /\ calls < MaxResetCalls
    /\ op.phase = "work"
    /\ \E S \in ResetInputs :
          /\ strm' = NewSession(EndCall(deflateResetKeep(strm)), S)
          /\ twin' = Fresh(0, S, op.setup)
    /\ op' = ResetOp("reset", "keep", op.setup)
    /\ calls' = calls + 1

Second ==
    /\ calls < MaxResetCalls
    /\ op.phase \in {"full", "keep"}
    /\ \E flush \in {Z_NO_FLUSH, Z_SYNC_FLUSH, Z_FINISH},
          k \in {1, FirstChunk, Remaining(strm)} :
          /\ k <= Remaining(strm)
          /\ strm' = Call(strm, flush, k, Ample)
          /\ twin' = Call(twin, flush, k, Ample)
    /\ op' = ResetOp("process", op.phase, op.setup)
    /\ calls' = calls + 1

NextReset == Work \/ Reset \/ ResetKeep \/ Second

SpecReset == InitReset /\ [][NextReset]_vars

\* the window and index fields as creation leaves them
InitialIndex(z) ==
    /\ z.strstart = 0
    /\ z.lookahead = 0
    /\ z.block_start = 0
    /\ z.insert = 0
    /\ z.match_available = 0
    /\ \A h \in 0..z.hash_mask : HeadAt(z, h) = NIL
    /\ z.pending = <<>>
    /\ z.status = (IF z.wrap = 0 THEN "BUSY" ELSE "INIT")

\* C14: after a reset of either kind the window and index fields are those
\* of a freshly created context
C14_ResetRestores ==
    op.name = "reset" => InitialIndex(strm)

\* C15: after earlier work and a full reset, a context delivers the bytes
\* that a fresh context with the same parameters delivers for the same input
C15_ResetAsFresh ==
    op.phase = "full" => strm.out = twin.out

(* ------------------------------------------------------------------ *)
(* Output size estimate                                               *)
(* ------------------------------------------------------------------ *)
\* the wrapper bytes deflateBound counts (gzhead is Z_NULL)
WrapLen(z) ==
    IF z.wrap = 0 THEN 0
    ELSE IF z.wrap = 1 THEN 6 + (IF z.strstart # 0 THEN 4 ELSE 0)
    ELSE IF z.wrap = 2
    THEN 18 + (IF z.gzhead.null THEN 0
               ELSE (IF z.gzhead.extra_null THEN 0 ELSE 2 + Len(z.gzhead.extra))
                    + Len(z.gzhead.name) + Len(z.gzhead.comment)
                    + (IF z.gzhead.hcrc # 0 THEN 2 ELSE 0))
    ELSE 6

\* an estimate that forgets the headers of the blocks
deflateBound_headerless(z, sourceLen) ==
    IF z.strm_null \/ z.state = Z_NULL THEN sourceLen + 6
    ELSE sourceLen + WrapLen(z)

deflateBound(z, sourceLen) ==
    LET complen == sourceLen + ((sourceLen + 7) \div 8) + ((sourceLen + 63) \div 64) + 5
    IN  IF z.strm_null \/ z.state = Z_NULL THEN complen + 6
        ELSE IF z.w_bits # 15 \/ z.hash_bits # 8 + 7 THEN complen + WrapLen(z)
        ELSE sourceLen + (sourceLen \div 4096) + (sourceLen \div 16384)
             + (sourceLen \div 33554432) + 13 - 6 + WrapLen(z)

(* ------------------------------------------------------------------ *)
(* Sessions that ask for the estimate and then compress with one      *)
(* finish call.  op holds the estimate for the context and the one    *)
(* for a context with the same wrapper and default window and memory. *)
(* ------------------------------------------------------------------ *)
FreshMem(g, data, c, memLevel) ==
    EndCall(deflateInit2_(RawContext(g, c.shift, c.vector, data),
                          c.level, c.wb, memLevel, c.strategy))

DefaultWindowBits == 15
SmallMemLevel == 1

\* windowBits for the wrapper of z with the default window
DefaultWb(z) ==
    IF z.wrap = 0 THEN 0 - DefaultWindowBits
    ELSE IF z.wrap = 1 THEN DefaultWindowBits
    ELSE DefaultWindowBits + 16

DefaultLike(z) ==
    FreshMem(0, <<>>, Setup(z.level, z.strategy, DefaultWb(z), z.hash_shift, z.sse42),
             DefaultMemLevel)

BoundWindows == {9, 0 - 9, 25, DefaultWindowBits, 0 - DefaultWindowBits,
                 DefaultWindowBits + 16}
BoundLevels == {0, 6}

\* lengths around nothing, around MAX_DIST of the small window (250) and
\* around the largest stored block of the small memory level (507)
MaxBoundLen == 6
BoundLens == (0..MaxBoundLen) \cup {249, 250, 251, 506, 507, 508}

BoundOp(name, n, bound, default_bound) ==
    [name |-> name, n |-> n, bound |-> bound, default_bound |-> default_bound]

InitBound ==
    /\ \E n \in BoundLens, wb \in BoundWindows, level \in BoundLevels,
          mem \in {SmallMemLevel, DefaultMemLevel} :
          strm = FreshMem(0, Pattern(3, n), Setup(level, Z_DEFAULT_STRATEGY, wb, 5, TRUE),
                          mem)
    /\ twin = strm
    /\ op = BoundOp("init", 0, 0, 0)
    /\ calls = 0

Bound ==
    /\ op.name = "init"
    /\ op' = BoundOp("bound", Len(strm.in_data),
                     deflateBound(strm, Len(strm.in_data)),
                     deflateBound(DefaultLike(strm), Len(strm.in_data)))
    /\ calls' = calls + 1
    /\ UNCHANGED <<strm, twin>>

Compress ==
    /\ op.name = "bound"
    /\ strm' = Call(strm, Z_FINISH, Remaining(strm), Ample)
    /\ op' = [op EXCEPT !.name = "finish"]
    /\ calls' = calls + 1
    /\ UNCHANGED twin

NextBound == Bound \/ Compress

SpecBound == InitBound /\ [][NextBound]_vars

C17_ConservativeAboveTight ==
    (op.name = "bound" /\ (strm.w_bits # 15 \/ strm.hash_bits # 15))
        => op.bound >= op.default_bound

(* ------------------------------------------------------------------ *)
(* Sessions with calls out of order and with bad arguments: strm is   *)
(* the context, twin the context as the caller prepared it for the    *)
(* last call.                                                         *)
(* ------------------------------------------------------------------ *)
MisSetups ==
    { Setup(6, Z_DEFAULT_STRATEGY, 9, 5, TRUE),
      Setup(2, Z_DEFAULT_STRATEGY, 0 - 9, 5, FALSE) }

MisInputs == {<<97, 97>>, Pattern(2, MaxPat)}

MaxMisCalls == 3
SmallOut == 2

Faults == {"none", "null_context", "null_out", "null_in"}

\* flush values: the six modes, one below and one above them
FlushValues == (0 - 1)..(Z_BLOCK + 1)

\* the caller extends the input view by k_in bytes, offers k_out bytes of
\* output, and passes the pointers that `fault` names as Z_NULL
Prepare(z, k_in, k_out, fault) ==
    [z EXCEPT !.avail_in = @ + k_in,
              !.avail_out = k_out,
              !.strm_null = (fault = "null_context"),
              !.out_null = (fault = "null_out"),
              !.in_null = (fault = "null_in")]

MisOp(name, flush, fault) == [name |-> name, flush |-> flush, fault |-> fault]

InitMisuse ==
    /\ \E S \in MisInputs, c \in MisSetups : strm = Fresh(0, S, c)
    /\ twin = strm
    /\ op = MisOp("init", Z_NO_FLUSH, "none")
    /\ calls = 0

MisProcess ==
    /\ calls < MaxMisCalls
    /\ \E flush \in {Z_NO_FLUSH, Z_PARTIAL_FLUSH, Z_FINISH},
          k_in \in {0, 1}, k_out \in {0, SmallOut, Ample} :
          /\ k_in <= Remaining(strm)
          /\ twin' = Prepare(strm, k_in, k_out, "none")
          /\ strm' = EndCall(deflate(twin', flush))
          /\ op' = MisOp("process", flush, "none")
    /\ calls' = calls + 1

Misuse ==
    /\ calls < MaxMisCalls
    /\ \E flush \in FlushValues, fault \in Faults, k_in \in {0, 1} :
          /\ (fault = "none") = (flush \notin Z_NO_FLUSH..Z_BLOCK)
          /\ k_in <= Remaining(strm)
          /\ twin' = Prepare(strm, k_in, Ample, fault)
          /\ strm' = EndCall(deflate(twin', flush))
          /\ op' = MisOp("process", flush, fault)
    /\ calls' = calls + 1

Release ==
    /\ calls < MaxMisCalls
    /\ twin' = Prepare(strm, 0, strm.avail_out, "none")
    /\ strm' = EndCall(deflateEnd(twin'))
    /\ op' = MisOp("end", Z_NO_FLUSH, "none")
    /\ calls' = calls + 1

NextMisuse == MisProcess \/ Misuse \/ Release

SpecMisuse == InitMisuse /\ [][NextMisuse]_vars

\* the input view of z is the one of y
SameInput(z, y) ==
    /\ z.next_in = y.next_in
    /\ z.avail_in = y.avail_in
    /\ z.total_in = y.total_in

\* C18: once finish has been accepted, a process call that supplies more
\* input returns streamError, whatever its flush mode, and takes no input
C18_InputAfterFinish ==
    (op.name = "process" /\ twin.status = "FINISH" /\ twin.avail_in > 0)
        => strm.ret = Z_STREAM_ERROR /\ SameInput(strm, twin)

\* C19: a process call that returns bufferError leaves the context as it
\* found it
C19_BufErrorNoChange ==
    (op.name = "process" /\ strm.ret = Z_BUF_ERROR)
        => strm = [twin EXCEPT !.ret = Z_BUF_ERROR]

\* the call names a null or released context, a flush value outside the six
\* modes, a null output view, or a null input view of non-zero length
Misused(z, flush) ==
    \/ z.strm_null
    \/ z.state = Z_NULL
    \/ flush \notin Z_NO_FLUSH..Z_BLOCK
    \/ z.out_null
    \/ (z.in_null /\ z.avail_in # 0)

C21_NoDataError ==
    strm.ret # Z_DATA_ERROR

(* ------------------------------------------------------------------ *)
(* Creation when the allocator refuses memory                         *)
(* ------------------------------------------------------------------ *)
\* the four buffers deflateInit2_ asks for after the state object
Buffers == {"window", "prev", "head", "pending_buf"}

\* what ZALLOC handed out when it refused `refused`: without the state
\* object no buffer is asked for
Granted(refused) ==
    IF "state" \in refused THEN {} ELSE ({"state"} \cup Buffers) \ refused

\* the ZFREE calls of deflateEnd, in its order: TRY_FREE skips a buffer
\* that is Z_NULL
EndFrees(held) ==
    SelectSeq(<<"pending_buf", "head", "prev", "window">>, LAMBDA b : b \in held)
        \o <<"state">>

\* the handle with a state object just allocated: g, shift, vector as in
\* RawContext
NewState(handle, g, shift, vector) ==
    [f \in DOMAIN handle |->
        IF f \in StreamFields THEN handle[f]
        ELSE RawContext(g, shift, vector, <<>>)[f]]

\* deflateInit2_ with valid arguments on `handle`; raw is the handle with
\* the state object the allocator would grant.  z is the handle on return,
\* freed the ZFREE calls made
deflateInit2_mem(handle, raw, level, windowBits, memLevel, strategy, refused) ==
    IF "state" \in refused
    THEN [z |-> Return(handle, Z_MEM_ERROR), freed |-> <<>>]
    ELSE IF refused \cap Buffers # {}
    THEN [z |-> Return(deflateEnd([raw EXCEPT !.state = OwnState,
                                              !.status = "FINISH"]), Z_MEM_ERROR),
          freed |-> EndFrees(Granted(refused))]
    ELSE [z |-> deflateInit2_(raw, level, windowBits, memLevel, strategy),
          freed |-> <<>>]

(* ------------------------------------------------------------------ *)
(* Sessions whose creation may fail: strm is the handle, twin the     *)
(* handle as the last call found it.  op.failed holds from a failed   *)
(* creation to the next successful one.                               *)
(* ------------------------------------------------------------------ *)
CreateSetups ==
    { Setup(6, Z_DEFAULT_STRATEGY, 9, 5, TRUE),
      Setup(0, Z_DEFAULT_STRATEGY, 25, 5, FALSE) }

CreateInputs == {<<>>, <<97, 98>>, Pattern(2, MaxPat)}

\* the requests the allocator may refuse in one creation
Refusals == {{}, {"state"}, {"window"}, {"head", "pending_buf"}, Buffers}

MaxCreateCalls == 3

CreateOp(name, ret, refused, freed, failed) ==
    [name |-> name, ret |-> ret, refused |-> refused, freed |-> freed,
     failed |-> failed]

InitCreate ==
    /\ \E S \in CreateInputs : strm = RawContext(0, 0, FALSE, S)
    /\ twin = strm
    /\ op = CreateOp("init", Z_OK, {}, <<>>, FALSE)
    /\ calls = 0

Create ==
    /\ calls < MaxCreateCalls
    /\ \E c \in CreateSetups, refused \in Refusals :
          LET r == deflateInit2_mem(strm, NewState(strm, 0, c.shift, c.vector),
                                    c.level, c.wb, DefaultMemLevel, c.strategy,
                                    refused)
          IN  /\ strm' = EndCall(r.z)
              /\ op' = CreateOp("create", r.z.ret, refused, r.freed, refused # {})
    /\ twin' = strm
    /\ calls' = calls + 1

CreateProcess ==
    /\ calls < MaxCreateCalls
    /\ op.name # "init"
    /\ \E flush \in {Z_NO_FLUSH, Z_FINISH}, k \in {0, Remaining(strm)} :
          strm' = Call(strm, flush, k, Ample)
    /\ twin' = strm
    /\ op' = CreateOp("process", strm'.ret, {}, <<>>, op.failed)
    /\ calls' = calls + 1

CreateEnd ==
    /\ calls < MaxCreateCalls
    /\ op.name # "init"
    /\ strm' = EndCall(deflateEnd(strm))
    /\ twin' = strm
    /\ op' = CreateOp("end", strm'.ret, {}, EndFrees({"state"} \cup Buffers),
                      op.failed)
    /\ calls' = calls + 1

NextCreate == Create \/ CreateProcess \/ CreateEnd

SpecCreate == InitCreate /\ [][NextCreate]_vars

\* the creation returned memoryError, freed each object it was granted
\* once and nothing else, and left the handle empty
CleanFailure ==
    /\ strm.ret = Z_MEM_ERROR
    /\ \A b \in Granted(op.refused) :
          Cardinality({i \in DOMAIN op.freed : op.freed[i] = b}) = 1
    /\ \A i \in DOMAIN op.freed : op.freed[i] \in Granted(op.refused)
    /\ strm.state = Z_NULL

\* C22: a creation that is refused memory returns memoryError, releases
\* each buffer it was granted exactly once and leaves the handle empty, so
\* that every later operation on the handle returns streamError
C22_AllocFailure ==
    /\ (op.name = "create" /\ op.refused # {}) => CleanFailure
    /\ (op.failed /\ op.name \in {"process", "end"}) => strm.ret = Z_STREAM_ERROR

(* ------------------------------------------------------------------ *)
(* gzip header                                                        *)
(* ------------------------------------------------------------------ *)
deflateSetHeader(z, head) ==
    IF z.strm_null \/ z.state = Z_NULL THEN Return(z, Z_STREAM_ERROR)
    ELSE IF z.wrap # 2 THEN Return(z, Z_STREAM_ERROR)
    ELSE Return([z EXCEPT !.gzhead = head], Z_OK)

GzHeader(text, hcrc, extra_null, extra, name, comment) ==
    [null |-> FALSE, text |-> text, hcrc |-> hcrc, extra_null |-> extra_null,
     extra |-> extra, name |-> name, comment |-> comment, time |-> 66051,
     os |-> OS_CODE]

(* ------------------------------------------------------------------ *)
(* Sessions with a gzip header: strm is the context, twin the context *)
(* as the last call found it.  The contexts have the smallest pending *)
(* buffer (memLevel 1: 512 bytes), which a long header field fills.   *)
(* ------------------------------------------------------------------ *)
HeadSetups ==
    { Setup(6, Z_DEFAULT_STRATEGY, 25, 5, TRUE),
      Setup(0, Z_DEFAULT_STRATEGY, 9, 5, TRUE),
      Setup(2, Z_DEFAULT_STRATEGY, 0 - 9, 5, FALSE) }

\* length of a header field that does not fit the pending buffer
LongField == 600

\* a header with every field, and headers with a long extra field, a long
\* name, a long name that ends where the buffer is full, and a long
\* comment without header crc
GzHeaders ==
    { GzHeader(1, 1, FALSE, <<1, 2>>, <<110, 0>>, <<99, 0>>),
      GzHeader(0, 1, FALSE, Pattern(1, LongField + 8), <<110, 0>>, <<>>),
      GzHeader(0, 1, TRUE, <<>>, Append(Pattern(1, LongField + 8), 0), <<>>),
      GzHeader(0, 1, TRUE, <<>>, Append(Pattern(1, LongField), 0), <<>>),
      GzHeader(0, 0, FALSE, <<>>, <<>>, Append(Pattern(1, LongField), 0)) }

HeadInputs == {<<>>, Pattern(2, MaxPat)}

\* an output view smaller than the pending buffer
HeadView == 100

MaxHeadCalls == 3

HeadOp(name, flush) == [name |-> name, flush |-> flush]

InitHead ==
    /\ \E S \in HeadInputs, c \in HeadSetups :
          strm = FreshMem(0, S, c, SmallMemLevel)
    /\ twin = strm
    /\ op = HeadOp("init", Z_NO_FLUSH)
    /\ calls = 0

\* the caller does not replace a header that is being written: gzindex
\* would point into the new strings
SetHeader ==
    /\ calls < MaxHeadCalls
    /\ strm.status \notin {"EXTRA", "NAME", "COMMENT", "HCRC"}
    /\ \E h \in GzHeaders : strm' = EndCall(deflateSetHeader(strm, h))
    /\ twin' = strm
    /\ op' = HeadOp("header", Z_NO_FLUSH)
    /\ calls' = calls + 1

HeadProcess ==
    /\ calls < MaxHeadCalls
    /\ \E flush \in {Z_NO_FLUSH, Z_SYNC_FLUSH, Z_FINISH},
          k_out \in {HeadView, Ample} :
          /\ strm' = Call(strm, flush, Remaining(strm), k_out)
          /\ op' = HeadOp("process", flush)
    /\ twin' = strm
    /\ calls' = calls + 1

HeadParams ==
    /\ calls < MaxHeadCalls
    /\ op.name # "init"
    /\ \E level \in {0, 6} :
          strm' = EndCall(deflateParams([strm EXCEPT !.avail_out = Ample],
                                        level, Z_DEFAULT_STRATEGY))
    /\ twin' = strm
    /\ op' = HeadOp("params", Z_BLOCK)
    /\ calls' = calls + 1

HeadReset ==
    /\ calls < MaxHeadCalls
    /\ op.name # "init"
    /\ strm' = EndCall(Return(deflateReset(strm), Z_OK))
    /\ twin' = strm
    /\ op' = HeadOp("reset", Z_NO_FLUSH)
    /\ calls' = calls + 1

NextHead == SetHeader \/ HeadProcess \/ HeadParams \/ HeadReset

SpecHead == InitHead /\ [][NextHead]_vars

\* the place of a status in the order of the session
StatusRank(status) ==
    CASE status = "INIT" -> 0
      [] status = "EXTRA" -> 1
      [] status = "NAME" -> 2
      [] status = "COMMENT" -> 3
      [] status = "HCRC" -> 4
      [] status = "BUSY" -> 5
      [] status = "FINISH" -> 6

\* the blocks marked final among what z has emitted, delivered or not
FinalBlocks(z) ==
    Len(SelectSeq(z.out \o z.pending \o z.bi_buf,
                  LAMBDA u : u[1] \in {"block", "stored"} /\ u[2] = 1))

\* C23: but for a reset, a call leaves the status where it was or further
\* on in the order Init, Extra, Name, Comment, Hcrc, Busy, Finish; and the
\* status becomes Finish only in a process call whose flush mode is finish,
\* which emits a block marked final
C23_StatusForward ==
    /\ op.name # "reset" => StatusRank(twin.status) <= StatusRank(strm.status)
    /\ (strm.status = "FINISH" /\ twin.status # "FINISH")
           => /\ op.name = "process"
              /\ op.flush = Z_FINISH
              /\ FinalBlocks(strm) = FinalBlocks(twin) + 1

\* a header that a full pending buffer had interrupted is completed and the
\* stream finished in one call
C23_Witness ==
    /\ op.name = "process"
    /\ twin.status \in {"NAME", "COMMENT"}
    /\ strm.status = "FINISH"
    /\ strm.ret = Z_STREAM_END

(* ------------------------------------------------------------------ *)
(* The zlib header of every parameter setting: strm is a context      *)
(* created with the setting, which may take a dictionary and then     *)
(* emits its header in the first process call.  twin is the context   *)
(* as that call found it, op.header the value of the first two bytes  *)
(* delivered.                                                         *)
(* ------------------------------------------------------------------ *)
HeaderLevels == 0..9
HeaderStrategies == Z_DEFAULT_STRATEGY..Z_FIXED
HeaderWindowBits == 8..15

ZlibOp(name, header) == [name |-> name, header |-> header]

InitZlib ==
    /\ \E level \in HeaderLevels, strategy \in HeaderStrategies,
          wb \in HeaderWindowBits :
          strm = Fresh(0, <<97, 97>>, Setup(level, strategy, wb, 5, TRUE))
    /\ twin = strm
    /\ op = ZlibOp("init", 0)
    /\ calls = 0

ZlibDictionary ==
    /\ calls = 0
    /\ op.name = "init"
    /\ strm' = EndCall(deflateSetDictionary(strm, <<97>>))
    /\ twin' = strm
    /\ op' = ZlibOp("dictionary", 0)
    /\ calls' = calls

ZlibFirstCall ==
    /\ calls = 0
    /\ \E flush \in {Z_NO_FLUSH, Z_FINISH} :
          strm' = Call(strm, flush, IF flush = Z_FINISH THEN Remaining(strm) ELSE 0,
                       Ample)
    /\ twin' = strm
    /\ op' = ZlibOp("process", (strm'.out[1][2] * 256) + strm'.out[2][2])
    /\ calls' = 1

NextZlib == ZlibDictionary \/ ZlibFirstCall

SpecZlib == InitZlib /\ [][NextZlib]_vars

\* C24: the two header bytes of a zlib stream, taken as a 16-bit value, are
\* a multiple of 31, and above the five check bits they hold the method,
\* the window size, the level hint and the dictionary flag as they were
\* before the check bits were added
C24_HeaderCheck ==
    op.name = "process"
        => /\ op.header % 31 = 0
           /\ op.header < 65536
           /\ (op.header \div 256) % 16 = Z_DEFLATED
           /\ op.header \div 4096 = twin.w_bits - 8
           /\ (op.header \div 64) % 4 = LevelFlags(twin)
           /\ (op.header \div 32) % 2 = (IF twin.strstart # 0 THEN 1 ELSE 0)
           /\ op.header \div 32 = ZlibHeaderFields(twin) \div 32

\* a header with the dictionary flag whose check bits are all ones
C24_Witness ==
    /\ op.name = "process"
    /\ twin.strstart # 0
    /\ twin.w_bits = 15
    /\ op.header % 32 = 31
    /\ op.header % 31 = 0

(* ------------------------------------------------------------------ *)
(* The input "abcabcabcabc" compressed in one finish call by the fast *)
(* and the lazy tokenizer, at every level 1-9, with windows of 512    *)
(* and 32768 bytes; twin is the context as created.                   *)
(* ------------------------------------------------------------------ *)
Abc == Pattern(3, 12)

AbcLevels == 1..9
AbcStrategies == {Z_DEFAULT_STRATEGY, Z_FILTERED, Z_FIXED}
AbcWindowBits == {9, 0 - 15}
AbcShifts == {0, 5, 16}

AbcOp(name) == [name |-> name]

InitAbc ==
    /\ \E level \in AbcLevels, strategy \in AbcStrategies, wb \in AbcWindowBits,
          shift \in AbcShifts, vector \in BOOLEAN :
          strm = Fresh(0, Abc, Setup(level, strategy, wb, shift, vector))
    /\ twin = strm
    /\ op = AbcOp("init")
    /\ calls = 0

AbcFinish ==
    /\ calls = 0
    /\ strm' = Call(strm, Z_FINISH, Remaining(strm), Ample)
    /\ twin' = twin
    /\ op' = AbcOp("process")
    /\ calls' = 1

NextAbc == AbcFinish

SpecAbc == InitAbc /\ [][NextAbc]_vars

\* C25: the tokens of "abcabcabcabc", compressed in one finish call by a
\* matching tokenizer, hold a match of distance 3
C25_AbcBackReference ==
    op.name = "process"
        => /\ strm.ret = Z_STREAM_END
           /\ \E i \in Matches(strm) : strm.toks[i][3] = 3

(* ------------------------------------------------------------------ *)
(* Sessions on a window of 512 bytes with inputs that outgrow it, fed *)
(* in chunks with and without a flush, after an optional dictionary.  *)
(* strm.seen holds what the window and the index went through; twin   *)
(* is the context as the last call found it.                          *)
(* ------------------------------------------------------------------ *)
\* both matching tokenizers with both window fillers, the stored one, and
\* one that matches without the index, all on the smallest window
WindowSetups ==
    {Setup(6, Z_DEFAULT_STRATEGY, 0 - 9, 16, TRUE),
     Setup(6, Z_DEFAULT_STRATEGY, 9, 5, FALSE),
     Setup(2, Z_DEFAULT_STRATEGY, 0 - 9, 16, FALSE),
     Setup(2, Z_DEFAULT_STRATEGY, 9, 5, TRUE),
     Setup(0, Z_DEFAULT_STRATEGY, 0 - 9, 0, FALSE),
     Setup(6, Z_RLE, 0 - 9, 0, TRUE)}

\* bytes that count up and start again after RampPeriod of them: with a
\* period above the maximum distance of the window no string has a match
RampPeriod == 251
Ramp(n) == SubSeq([i \in 1..n |-> (i - 1) % RampPeriod], 1, n)

\* Ramp(n) with the len bytes from index `at` on replaced by the ones that
\* lie d before them
Echo(n, at, d, len) ==
    SubSeq([i \in 1..n |-> IF i > at /\ i <= at + len
                           THEN (i - 1 - d) % RampPeriod
                           ELSE (i - 1) % RampPeriod], 1, n)

\* an echo at the last position before the slide threshold of the window
\* (w_size + MAX_DIST), from the maximum distance and from nearer
EchoLen == 19
NearDist == 200
FarDist == Pow2(9) - MIN_LOOKAHEAD
EchoAt == Pow2(9) + FarDist - 1
EchoTotal == EchoAt + EchoLen

\* an input that fills the window and makes it slide
SlideLen == 1100

WindowInputs ==
    {Pattern(4, MaxPat), Pattern(2, MaxPat + 2),
     Echo(EchoTotal, EchoAt, FarDist, EchoLen),
     Echo(EchoTotal, EchoAt, NearDist, EchoLen),
     Ramp(SlideLen), Pattern(4, SlideLen)}

WindowDictionaries == {Pattern(4, MaxPat)}

\* where the caller may cut the input still to come
FirstCut == 600
WindowCuts(z) == IF Len(z.in_data) > EchoLen THEN {FirstCut} ELSE {1, MaxPat - 1}

MaxWindowCalls == 3

WindowOp(name, flush) == [name |-> name, flush |-> flush]

InitWindow ==
    /\ \E S \in WindowInputs, c \in WindowSetups : strm = Fresh(0, S, c)
    /\ twin = strm
    /\ op = WindowOp("init", Z_NO_FLUSH)
    /\ calls = 0

WindowDictionary ==
    /\ calls = 0
    /\ \E D \in WindowDictionaries :
          strm' = EndCall(deflateSetDictionary(strm, D))
    /\ twin' = strm
    /\ op' = WindowOp("dictionary", Z_NO_FLUSH)
    /\ calls' = 1

WindowFeed ==
    /\ calls < MaxWindowCalls
    /\ strm.ret # Z_STREAM_END
    /\ \E k \in WindowCuts(strm), flush \in {Z_NO_FLUSH, Z_SYNC_FLUSH} :
          /\ k < Remaining(strm)
          /\ strm' = Call(strm, flush, k, Ample)
          /\ op' = WindowOp("process", flush)
    /\ twin' = strm
    /\ calls' = calls + 1

WindowFinish ==
    /\ calls < MaxWindowCalls
    /\ strm.ret # Z_STREAM_END
    /\ strm' = Call(strm, Z_FINISH, Remaining(strm), Ample)
    /\ twin' = strm
    /\ op' = WindowOp("process", Z_FINISH)
    /\ calls' = calls + 1

NextWindow == WindowDictionary \/ WindowFeed \/ WindowFinish

SpecWindow == InitWindow /\ [][NextWindow]_vars

\* C26: every position put into the index (single insert, bulk insert
\* after a match, re-insert during a window fill, dictionary seeding) has
\* the 4 bytes of its hashed prefix inside the input supplied so far: no
\* hash is computed over window bytes at or beyond strstart + lookahead
C26_HashedInsideInput ==
    strm.seen.overrun = 0

\* the last slide found the lazy tokenizer with a match it had put off:
\* the one found at strstart - 1, of length match_length from match_start
DeferredAtSlide(z) ==
    /\ z.seen.slides > 0
    /\ Tokenizer(z) = "deflate_slow"
    /\ z.seen.pre.match_available = 1
    /\ z.seen.pre.match_length >= ACTUAL_MIN_MATCH

\* C27: whenever the window slides while the lazy tokenizer holds a
\* deferred match, the start recorded for that match is at least w_size
\* before the slide, and after it is a position of the window, not below
\* zero, where the bytes of the match still are
C27_DeferredMatchKept ==
    DeferredAtSlide(strm)
        => LET pre == strm.seen.pre
               post == strm.seen.post
           IN  /\ pre.match_start >= strm.w_size
               /\ post.match_start >= 0
               /\ post.match_start + pre.match_length <= strm.window_size
               /\ \A i \in 0..(pre.match_length - 1) :
                      WinAt(post, post.match_start + i)
                          = WinAt(pre, pre.match_start + i)

ChainWalk(z, h, low) ==
    Repeat(LAMBDA r : Let(PrevAt(z, r.p % z.w_size), LAMBDA nxt :
                          [p |-> nxt, ok |-> nxt >= NIL /\ nxt < r.p]),
           LAMBDA r : r.p <= low \/ ~r.ok,
           [p |-> HeadAt(z, h),
            ok |-> HeadAt(z, h) >= NIL /\ HeadAt(z, h) < Max(z.strstart, 1)],
           z.window_size)

\* C29: between operations, following prev[] from any entry of head[]
\* visits strictly decreasing positions, each below the current position
\* and inside the window, until NIL is reached
C29_ChainsDescend ==
    \A h \in DOMAIN strm.head :
        LET r == ChainWalk(strm, h, NIL) IN r.ok /\ r.p = NIL

\* the oldest position longest_match follows a chain to
ChainLimit(z) == IF z.strstart > MAX_DIST(z) THEN z.strstart - MAX_DIST(z) ELSE NIL

\* the part of a chain the match finder follows: the positions within the
\* maximum distance of the current one are strictly decreasing
ChainsDescendInReach ==
    \A h \in DOMAIN strm.head :
        ChainWalk(strm, h, ChainLimit(strm)).ok

\* C30: after every window fill strstart + lookahead <= 2*w_size and
\* strstart <= 2*w_size - MIN_LOOKAHEAD, and at least one byte of input
\* was read or none was available; lookahead never goes below zero when a
\* tokenizer consumes a literal or a match
C30_FillBounds ==
    /\ strm.seen.fill_end <= 2 * strm.w_size
    /\ strm.seen.fill_at <= (2 * strm.w_size) - MIN_LOOKAHEAD
    /\ strm.seen.idle = 0
    /\ strm.seen.low >= 0

\* a session filled its window to the last byte, slid it, and ended
C30_Witness ==
    /\ strm.seen.fill_end = 2 * strm.w_size
    /\ strm.seen.fill_at >= strm.w_size
    /\ strm.seen.slides > 0
    /\ strm.ret = Z_STREAM_END
    /\ Len(strm.toks) > 0

(* ------------------------------------------------------------------ *)
(* Match search: every level of the configuration table, with and     *)
(* without a deflateTune call, over inputs with long hash chains.     *)
(* ------------------------------------------------------------------ *)
\* every level that searches, under both window fillers; a lazy level with
\* the filter strategy
SearchSetups ==
    {Setup(l, Z_DEFAULT_STRATEGY, 0 - 9, 16, l % 2 = 0) : l \in 1..9}
        \cup {Setup(6, Z_FILTERED, 0 - 9, 16, TRUE),
              Setup(4, Z_DEFAULT_STRATEGY, 0 - 9, 5, FALSE)}

\* n strings "ab?" that differ in their third byte: one hash chain of n
\* candidates, none of which matches 4 bytes
AbRun(n) == SubSeq([i \in 1..(3 * n) |->
                      IF i % 3 = 1 THEN 97
                      ELSE IF i % 3 = 2 THEN 98
                      ELSE 48 + (i \div 3)], 1, 3 * n)

\* "abcd", then "bcdef", then "abcdef", after a first byte (position 0 is
\* never a candidate): the match found at the second "a" (length 4) is
\* beaten by the one found at the "b" after it (length 5)
Better == <<90, 97, 98, 99, 100, 88, 98, 99, 100, 101, 102, 89,
            97, 98, 99, 100, 101, 102>>

\* "abcd", "bcd", then "abcd": the match at the "b" is shorter
Worse == <<90, 97, 98, 99, 100, 88, 98, 99, 100, 89, 97, 98, 99, 100, 90>>

ChainRun == 12
SearchInputs ==
    {AbRun(ChainRun), Better, Worse, Pattern(4, MaxPat + MaxPat), Pattern(1, MaxPat)}

\* good_length, max_lazy, nice_length, max_chain as deflateTune takes them
Tunings ==
    {<<4, 4, 8, 4>>, <<8, 16, 128, 0>>, <<4, 16, 128, 3>>, <<4, 5, 16, 8>>,
     <<32, 258, 258, 32>>}

MaxSearchCalls == 3

SearchOp(name, flush) == [name |-> name, flush |-> flush]

InitSearch ==
    /\ \E S \in SearchInputs, c \in SearchSetups : strm = Fresh(0, S, c)
    /\ twin = strm
    /\ op = SearchOp("init", Z_NO_FLUSH)
    /\ calls = 0

Tune ==
    /\ calls = 0
    /\ \E t \in Tunings :
          strm' = EndCall(deflateTune(strm, t[1], t[2], t[3], t[4]))
    /\ twin' = strm
    /\ op' = SearchOp("tune", Z_NO_FLUSH)
    /\ calls' = 1

SearchFeed ==
    /\ calls < MaxSearchCalls
    /\ strm.ret # Z_STREAM_END
    /\ \E k \in {Remaining(strm) \div 2, Remaining(strm) - 1} :
          /\ k > 0
          /\ strm' = Call(strm, Z_SYNC_FLUSH, k, Ample)
    /\ twin' = strm
    /\ op' = SearchOp("process", Z_SYNC_FLUSH)
    /\ calls' = calls + 1

SearchFinish ==
    /\ calls < MaxSearchCalls
    /\ strm.ret # Z_STREAM_END
    /\ strm' = Call(strm, Z_FINISH, Remaining(strm), Ample)
    /\ twin' = strm
    /\ op' = SearchOp("process", Z_FINISH)
    /\ calls' = calls + 1

NextSearch == Tune \/ SearchFeed \/ SearchFinish

SpecSearch == InitSearch /\ [][NextSearch]_vars

\* C31: a call to longest_match changes no field of the context: not the
\* window, the index, strstart, lookahead, the recorded match position or
\* the match lengths
C31_SearchChangesNothing ==
    strm.seen.touched = {}

\* the only field a search writes is the recorded match position
C31_SearchKeepsAllButMatchStart ==
    strm.seen.touched \subseteq {"match_start"}

\* a session whose searches moved match_start and whose match was emitted
C31_Witness ==
    /\ strm.seen.touched = {"match_start"}
    /\ \E i \in 1..Len(strm.toks) : strm.toks[i][1] = "match"
    /\ strm.ret = Z_STREAM_END

\* C32: every call to longest_match examines at most max_chain_length
\* candidates, a quarter of that when prev_length had reached good_match,
\* at every level of the table and after every deflateTune call
C32_ChainBound ==
    strm.seen.searched
        => strm.seen.search.probes <= ChainLength(strm.seen.search)

\* the bound holds for the calls that start with a chain length above zero
ChainBoundAboveZero ==
    (strm.seen.searched /\ ChainLength(strm.seen.search) > 0) => C32_ChainBound

\* C33: in deflate_slow, a match of length L >= 4 put off at position p is
\* the token of p if and only if the match then found at p + 1 is not
\* strictly longer than L; otherwise the byte at p goes out as a literal
\* and the match of p + 1 is the one put off
C33_LazyRule ==
    \A o \in strm.seen.lazy :
        /\ o.was >= ACTUAL_MIN_MATCH
        /\ o.at = 0
        /\ (o.kind = "match") = (o.found <= o.was)
        /\ o.kind = "match" => o.length = o.was
        /\ o.kind # "match"
              => /\ o.kind = "lit"
                 /\ o.byte = o.src
                 /\ o.held = 1
                 /\ o.next = o.found

\* a finished session in which one match gave way to a longer one and
\* another was emitted
C33_Witness ==
    /\ strm.ret = Z_STREAM_END
    /\ \E o \in strm.seen.lazy : o.found > o.was /\ o.kind = "lit"
    /\ \E o \in strm.seen.lazy : o.found <= o.was /\ o.kind = "match"

(* ------------------------------------------------------------------ *)
(* The two window fillers side by side: a session is taken up to a    *)
(* point between two calls, then fill_window_default and              *)
(* fill_window_sse42 are both given the context and the next chunk of *)
(* input.  strm holds what the vector variant left, twin the scalar.  *)
(* ------------------------------------------------------------------ *)
FillSetups ==
    {Setup(6, Z_DEFAULT_STRATEGY, 0 - 9, 16, TRUE),
     Setup(6, Z_DEFAULT_STRATEGY, 0 - 9, 5, FALSE),
     Setup(2, Z_DEFAULT_STRATEGY, 0 - 9, 16, FALSE),
     Setup(2, Z_DEFAULT_STRATEGY, 0 - 9, 5, TRUE),
     Setup(0, Z_DEFAULT_STRATEGY, 0 - 9, 16, TRUE),
     Setup(2, Z_RLE, 0 - 9, 16, FALSE)}

FillInputs ==
    {AbRun(ChainRun), Better, Pattern(4, MaxPat + MaxPat), Pattern(1, MaxPat)}

FillDictionaries == {Pattern(4, MaxPat), Worse}

MaxFillCalls == 3

FillOp(name, flush) == [name |-> name, flush |-> flush]

InitFill ==
    /\ \E S \in FillInputs, c \in FillSetups : strm = Fresh(0, S, c)
    /\ twin = strm
    /\ op = FillOp("init", Z_NO_FLUSH)
    /\ calls = 0

FillDictionary ==
    /\ calls = 0
    /\ op.name = "init"
    /\ \E D \in FillDictionaries :
          strm' = EndCall(deflateSetDictionary(strm, D))
    /\ twin' = strm
    /\ op' = FillOp("dictionary", Z_NO_FLUSH)
    /\ calls' = 1

FillFeed ==
    /\ calls < MaxFillCalls
    /\ op.name # "fill"
    /\ \E k \in {1, 5, Remaining(strm) \div 2}, flush \in {Z_NO_FLUSH, Z_SYNC_FLUSH} :
          /\ k < Remaining(strm)
          /\ strm' = Call(strm, flush, k, Ample)
          /\ op' = FillOp("process", flush)
    /\ twin' = strm
    /\ calls' = calls + 1

\* what a tokenizer does first in the next call: lookahead is short and
\* the caller has supplied k more bytes
Refill ==
    /\ op.name # "fill"
    /\ strm.lookahead < MIN_LOOKAHEAD
    /\ \E k \in {1, 2, Remaining(strm)} :
          LET z == [strm EXCEPT !.avail_in = @ + k]
          IN  /\ k >= 1
              /\ k <= Remaining(strm)
              /\ strm' = EndCall(fill_window_sse42(z))
              /\ twin' = EndCall(fill_window_default(z))
    /\ op' = FillOp("fill", Z_NO_FLUSH)
    /\ calls' = calls + 1

NextFill == FillDictionary \/ FillFeed \/ Refill

SpecFill == InitFill /\ [][NextFill]_vars

\* what both fillers take from the input and where they leave the window
SameData(z, y) ==
    /\ z.window = y.window
    /\ z.strstart = y.strstart
    /\ z.lookahead = y.lookahead
    /\ z.block_start = y.block_start
    /\ z.match_start = y.match_start
    /\ z.next_in = y.next_in
    /\ z.avail_in = y.avail_in

\* the index as both fillers leave it
SameIndex(z, y) ==
    /\ z.insert = y.insert
    /\ z.ins_h = y.ins_h
    /\ z.head = y.head
    /\ z.prev = y.prev

\* C34: given the same context and the same input, fill_window_default
\* and fill_window_sse42 leave the same window, strstart, lookahead,
\* block_start, match_start, insert, ins_h, head and prev
C34_FillersAgree ==
    op.name = "fill" => SameData(strm, twin) /\ SameIndex(strm, twin)

\* the two agree on everything but the index
FillersAgreeOnData ==
    op.name = "fill" => SameData(strm, twin)

(* ------------------------------------------------------------------ *)
(* gzip sessions with a header of the caller: the header is set       *)
(* before the first process call, the output views are narrow or      *)
(* ample, the pending buffer is the smallest (memLevel 1).            *)
(* ------------------------------------------------------------------ *)
GzipSetups ==
    { Setup(6, Z_DEFAULT_STRATEGY, 25, 5, TRUE),
      Setup(9, Z_DEFAULT_STRATEGY, 25, 5, FALSE),
      Setup(0, Z_DEFAULT_STRATEGY, 25, 5, TRUE),
      Setup(1, Z_DEFAULT_STRATEGY, 25, 5, FALSE) }

\* an output view that takes a few bytes of a header
NarrowView == 7

GzipViews == {NarrowView, HeadView, Ample}

MaxGzipCalls == 4

GzipOp(name, flush) == [name |-> name, flush |-> flush]

InitGzip ==
    /\ \E S \in HeadInputs, c \in GzipSetups :
          strm = FreshMem(0, S, c, SmallMemLevel)
    /\ twin = strm
    /\ op = GzipOp("init", Z_NO_FLUSH)
    /\ calls = 0

GzipSetHeader ==
    /\ op.name = "init"
    /\ \E h \in GzHeaders : strm' = EndCall(deflateSetHeader(strm, h))
    /\ twin' = strm
    /\ op' = GzipOp("header", Z_NO_FLUSH)
    /\ calls' = calls + 1

GzipProcess ==
    /\ calls < MaxGzipCalls
    /\ op.name # "init"
    /\ strm.ret # Z_STREAM_END
    /\ \E flush \in {Z_NO_FLUSH, Z_SYNC_FLUSH, Z_FINISH}, k_out \in GzipViews :
          /\ strm' = Call(strm, flush, Remaining(strm), k_out)
          /\ op' = GzipOp("process", flush)
    /\ twin' = strm
    /\ calls' = calls + 1

NextGzip == GzipSetHeader \/ GzipProcess

SpecGzip == InitGzip /\ [][NextGzip]_vars

\* deflate(): the XFL byte of the gzip header
ExtraFlags(z) ==
    IF z.level = 9 THEN 2
    ELSE IF z.strategy >= Z_HUFFMAN_ONLY \/ z.level < 2 THEN 4 ELSE 0

\* the gzip header of gzhead, byte by byte: the ten fixed bytes, the extra
\* field after its length, name, comment, and the low 16 bits of the crc
\* of all that
GzHeaderBytes(z) ==
    LET h == z.gzhead
        flags == (IF h.text # 0 THEN 1 ELSE 0) + (IF h.hcrc # 0 THEN 2 ELSE 0)
                 + (IF h.extra_null THEN 0 ELSE 4)
                 + (IF h.name = <<>> THEN 0 ELSE 8)
                 + (IF h.comment = <<>> THEN 0 ELSE 16)
        fields == <<31, 139, 8, flags,
                    h.time % 256, (h.time \div 256) % 256,
                    (h.time \div 65536) % 256, (h.time \div 16777216) % 256,
                    ExtraFlags(z), h.os % 256>>
                  \o (IF h.extra_null THEN <<>>
                      ELSE <<Len(h.extra) % 256, (Len(h.extra) \div 256) % 256>>
                           \o h.extra)
                  \o h.name \o h.comment
        crc == crc32(crc32_init, fields)
    IN  fields \o (IF h.hcrc # 0 THEN <<crc.lo % 256, crc.lo \div 256>> ELSE <<>>)

\* what z has emitted so far, delivered or still pending
Emitted(z) == z.out \o z.pending

\* no tokenizer has run: nothing read, nothing tallied, no block begun
Untouched(z) ==
    /\ z.next_in = 0
    /\ z.strstart = 0
    /\ z.lookahead = 0
    /\ z.toks = <<>>
    /\ \A i \in 1..Len(Emitted(z)) : Emitted(z)[i][1] \notin {"block", "stored"}

\* C35: on a gzip stream with a header of the caller, what has been
\* emitted begins with the bytes of the header, each once and in order,
\* whatever the output views and the lengths of the fields; and before the
\* status is BUSY_STATE no tokenizer has run and no block is emitted
C35_HeaderOnceInOrder ==
    (op.name = "process" /\ ~strm.gzhead.null)
        => LET H == GzHeaderBytes(strm)
               E == Emitted(strm)
               n == Min(Len(H), Len(E))
           IN  /\ \A i \in 1..n : E[i] = Byte(H[i])
               /\ StatusRank(strm.status) < StatusRank("BUSY")
                     => Len(E) <= Len(H) /\ Untouched(strm)
               /\ StatusRank(strm.status) >= StatusRank("BUSY")
                     => /\ Len(E) >= Len(H)
                        /\ Len(E) > Len(H) => E[Len(H) + 1][1] \in {"block", "stored"}

\* the header is right whenever no field has filled the pending buffer
HeaderRightWhenItFits ==
    Len(GzHeaderBytes(strm)) <= strm.pending_buf_size => C35_HeaderOnceInOrder

(* ------------------------------------------------------------------ *)
(* Repeated calls: every flush mode, with and without new input, on   *)
(* output views that the pending bytes exhaust or do not.  op records *)
(* the call, the flush mode of the call before, and the flush that    *)
(* stood completed before and after it.                               *)
(* ------------------------------------------------------------------ *)
RepeatSetups ==
    { Setup(2, Z_DEFAULT_STRATEGY, 9, 5, FALSE),
      Setup(6, Z_DEFAULT_STRATEGY, 0 - 9, 16, TRUE),
      Setup(0, Z_DEFAULT_STRATEGY, 0 - 9, 5, TRUE) }

RepeatInputs == {Pattern(2, MaxPat)}

\* output views: one that a flush marker exhausts, and an ample one
TightView == 3
RepeatViews == {TightView, Ample}

MaxRepeatCalls == 3

\* no flush stands completed
NoFlushDone == 0 - 1

\* a block, partial, sync or full flush is complete when the call returns
\* Z_OK with all input taken and output space left
Completes(z, flush) ==
    /\ flush \in {Z_BLOCK, Z_PARTIAL_FLUSH, Z_SYNC_FLUSH, Z_FULL_FLUSH}
    /\ z.ret = Z_OK
    /\ z.avail_in = 0
    /\ z.avail_out > 0

\* a call without input that asks for a flush other than finish ranked no
\* higher than the flush `done`
Repeats(done, flush, k_in) ==
    /\ k_in = 0
    /\ done # NoFlushDone
    /\ flush # Z_FINISH
    /\ RANK(flush) <= RANK(done)

\* the flush that stands completed after a call: the one the call
\* completed, or the one before as long as the calls only repeat it
FlushDone(done, z, flush, k_in) ==
    IF Repeats(done, flush, k_in) THEN done
    ELSE IF Completes(z, flush) THEN flush
    ELSE NoFlushDone

RepeatOp(name, flush, k_in, k_out, prev, was, done) ==
    [name |-> name, flush |-> flush, k_in |-> k_in, k_out |-> k_out,
     prev |-> prev, was |-> was, done |-> done]

InitRepeat ==
    /\ \E S \in RepeatInputs, c \in RepeatSetups : strm = Fresh(0, S, c)
    /\ twin = strm
    /\ op = RepeatOp("init", Z_NO_FLUSH, 0, 0, Z_NO_FLUSH, NoFlushDone, NoFlushDone)
    /\ calls = 0

RepeatProcess ==
    /\ calls < MaxRepeatCalls
    /\ strm.ret # Z_STREAM_END
    /\ \E flush \in Flushes \cup {Z_BLOCK}, k_in \in {0, 1, MaxPat - 1},
          k_out \in RepeatViews :
          /\ k_in <= Remaining(strm)
          /\ strm' = Call(strm, flush, k_in, k_out)
          /\ op' = RepeatOp("process", flush, k_in, k_out, op.flush, op.done,
                            FlushDone(op.done, strm', flush, k_in))
    /\ twin' = strm
    /\ calls' = calls + 1

NextRepeat == RepeatProcess

SpecRepeat == InitRepeat /\ [][NextRepeat]_vars

\* the call brought no input and asked for a flush other than finish that
\* ranks no higher than the one standing completed
RepeatsFlush ==
    /\ op.name = "process"
    /\ twin.avail_in = 0
    /\ Repeats(op.was, op.flush, op.k_in)

\* the call emitted nothing
NothingEmitted ==
    /\ strm.out = twin.out
    /\ strm.pending = twin.pending
    /\ strm.bi_buf = twin.bi_buf

\* C36: once a block, partial, sync or full flush has completed, every
\* call without new input that asks for a flush other than finish ranked
\* no higher (none < block < partial < sync < full) returns Z_BUF_ERROR
\* and emits nothing, until input arrives
C36_NoDuplicateFlush ==
    RepeatsFlush => strm.ret = Z_BUF_ERROR /\ NothingEmitted

\* the first such call after the completed flush is refused
FirstRepeatRefused ==
    (RepeatsFlush /\ twin.ret = Z_OK) => strm.ret = Z_BUF_ERROR /\ NothingEmitted

\* the call before returned Z_OK with its output view exhausted, and this
\* one has output space and the same flush mode
ResumesExhausted ==
    /\ op.name = "process"
    /\ twin.ret = Z_OK
    /\ twin.avail_out = 0
    /\ calls > 1
    /\ op.prev = op.flush
    /\ op.k_out > 0

\* C37: after a process call that returned Z_OK with its output view
\* exhausted, the next call with output space and the same flush mode does
\* not return Z_BUF_ERROR, with or without new input and with or without
\* pending bytes
C37_NoBufErrorAfterExhausted ==
    ResumesExhausted => strm.ret # Z_BUF_ERROR

\* the same for calls that do not offer input after finish
NoBufErrorUnlessInputAfterFinish ==
    (ResumesExhausted /\ ~(twin.status = "FINISH" /\ twin.avail_in + op.k_in > 0))
        => strm.ret # Z_BUF_ERROR

(* ------------------------------------------------------------------ *)
(* Sessions under Z_RLE from creation on, with and without a preset   *)
(* dictionary; twin is the context as the last call found it.         *)
(* ------------------------------------------------------------------ *)
RleSetups ==
    { Setup(2, Z_RLE, 0 - 9, 16, TRUE),
      Setup(6, Z_RLE, 0 - 9, 16, FALSE),
      Setup(6, Z_RLE, 9, 5, TRUE),
      Setup(0, Z_RLE, 0 - 9, 5, FALSE) }

\* runs, a run after other bytes, and a pattern that repeats from further
\* back than one byte
RleInputs ==
    {Pattern(1, MaxPat), Pattern(2, MaxPat), <<98>> \o Pattern(1, MaxPat),
     Pattern(4, MaxPat + MaxPat)}

RleDictionaries == {Pattern(1, MaxPat), Pattern(4, MaxPat)}

MaxRleCalls == 3

RleOp(name, flush) == [name |-> name, flush |-> flush]

InitRle ==
    /\ \E S \in RleInputs, c \in RleSetups : strm = Fresh(0, S, c)
    /\ twin = strm
    /\ op = RleOp("init", Z_NO_FLUSH)
    /\ calls = 0

RleDictionary ==
    /\ calls = 0
    /\ op.name = "init"
    /\ \E D \in RleDictionaries :
          strm' = EndCall(deflateSetDictionary(strm, D))
    /\ twin' = strm
    /\ op' = RleOp("dictionary", Z_NO_FLUSH)
    /\ calls' = 1

RleFeed ==
    /\ calls < MaxRleCalls
    /\ strm.ret # Z_STREAM_END
    /\ \E k \in {1, MaxPat - 1}, flush \in {Z_NO_FLUSH, Z_SYNC_FLUSH, Z_FULL_FLUSH} :
          /\ k < Remaining(strm)
          /\ strm' = Call(strm, flush, k, Ample)
          /\ op' = RleOp("process", flush)
    /\ twin' = strm
    /\ calls' = calls + 1

RleFinish ==
    /\ calls < MaxRleCalls
    /\ strm.ret # Z_STREAM_END
    /\ strm' = Call(strm, Z_FINISH, Remaining(strm), Ample)
    /\ twin' = strm
    /\ op' = RleOp("process", Z_FINISH)
    /\ calls' = calls + 1

NextRle == RleDictionary \/ RleFeed \/ RleFinish

SpecRle == InitRle /\ [][NextRle]_vars

\* every match among the tokens of z has distance 1
DistanceOne(z) ==
    \A i \in 1..Len(z.toks) : z.toks[i][1] = "match" => z.toks[i][3] = 1

\* the index of z holds no position that the index of y did not hold:
\* every head of a chain and every link was there before
NothingInserted(y, z) ==
    /\ \A h \in DOMAIN z.head : z.head[h] # NIL => HeadAt(y, h) = z.head[h]
    /\ \A p \in DOMAIN z.prev : z.prev[p] # NIL => PrevAt(y, p) = z.prev[p]

\* C38: under Z_RLE every match emitted has distance 1, and no process
\* call inserts a position into head[] or prev[]
C38_RleNoIndex ==
    /\ DistanceOne(strm)
    /\ op.name = "process" => NothingInserted(twin, strm)

\* a process call that finds no position left to insert inserts none
RleInsertsOnlyPending ==
    /\ DistanceOne(strm)
    /\ (op.name = "process" /\ twin.insert = 0) => NothingInserted(twin, strm)

(* ------------------------------------------------------------------ *)
(* ZipZSTD.cxx: R__zipZSTD and R__unzipZSTD around the zstd library.  *)
(* strm is a record of the caller's buffers: src the data, zip the    *)
(* buffer R__zipZSTD fills, out the buffer R__unzipZSTD fills, each   *)
(* with the value of *irep of its call.  The library is taken by its  *)
(* frame format: magic number, frame header with the content size,    *)
(* one raw block.                                                     *)
(* ------------------------------------------------------------------ *)
kROOTHeaderSize == 9

ZSTD_MAGICNUMBER == <<40, 181, 47, 253>>

\* the magic number of a skippable frame, whose content size is 0
ZSTD_MAGIC_SKIPPABLE == <<80, 42, 77, 24>>

\* frame header descriptor: single segment, content size in one byte
SingleSegment == 32

\* ZSTD_CONTENTSIZE_ERROR and ZSTD_CONTENTSIZE_UNKNOWN are 0ULL - 2 and
\* 0ULL - 1: as a capacity, a value above every buffer
ZSTD_CONTENTSIZE_ERROR == 2147483646
ZSTD_CONTENTSIZE_UNKNOWN == 2147483647

ZSTD_ERROR == 0 - 1

\* a frame that holds data in one raw block, the last of the frame
ZstdFrame(data) ==
    ZSTD_MAGICNUMBER \o <<SingleSegment, Len(data)>>
        \o <<((Len(data) * 8) + 1) % 256, (Len(data) * 8) \div 256, 0>> \o data

\* ZSTD_compress: the frame and its size, or an error when it does not fit
ZSTD_compress(dstCapacity, src) ==
    IF Len(ZstdFrame(src)) > dstCapacity
    THEN [size |-> ZSTD_ERROR, bytes |-> <<>>]
    ELSE [size |-> Len(ZstdFrame(src)), bytes |-> ZstdFrame(src)]

\* ZSTD_getFrameContentSize of the first srcSize bytes of buf
ZSTD_getFrameContentSize(buf, srcSize) ==
    IF srcSize < 6 \/ Len(buf) < 6 THEN ZSTD_CONTENTSIZE_ERROR
    ELSE IF SubSeq(buf, 1, 4) = ZSTD_MAGIC_SKIPPABLE THEN 0
    ELSE IF SubSeq(buf, 1, 4) # ZSTD_MAGICNUMBER THEN ZSTD_CONTENTSIZE_ERROR
    ELSE IF buf[5] = SingleSegment THEN buf[6]
    ELSE ZSTD_CONTENTSIZE_UNKNOWN

\* ZSTD_decompress: the data of the frame, or an error when the frame is
\* not one or its data exceed dstCapacity
ZSTD_decompress(dstCapacity, src) ==
    IF Len(src) < 9 \/ SubSeq(src, 1, 4) # ZSTD_MAGICNUMBER \/ src[5] # SingleSegment
    THEN [size |-> ZSTD_ERROR, bytes |-> <<>>]
    ELSE LET n == src[6]
         IN  IF Len(src) # 9 + n \/ src[7] + (256 * src[8]) # (n * 8) + 1
                \/ n > dstCapacity
             THEN [size |-> ZSTD_ERROR, bytes |-> <<>>]
             ELSE [size |-> n, bytes |-> SubSeq(src, 10, 9 + n)]

\* buf with bytes written from its start
Overwrite(buf, bytes) == bytes \o Drop(buf, Len(bytes))

\* R__zipZSTD: the target buffer and *irep it leaves
R__zipZSTD(srcsize, src, tgtsize, tgt) ==
    IF tgtsize <= 0 \/ tgtsize < kROOTHeaderSize THEN [tgt |-> tgt, irep |-> 0]
    ELSE LET in_size == srcsize
             c == ZSTD_compress(tgtsize - kROOTHeaderSize, Take(src, srcsize))
             retval == c.size
             header == <<90, 83, 1,
                         retval % 256, (retval \div 256) % 256, (retval \div 65536) % 256,
                         in_size % 256, (in_size \div 256) % 256,
                         (in_size \div 65536) % 256>>
         IN  IF retval = ZSTD_ERROR THEN [tgt |-> tgt, irep |-> 0]
             ELSE [tgt |-> Overwrite(tgt, header \o c.bytes),
                   irep |-> retval + kROOTHeaderSize]

\* the major version of the library: ZSTD_versionNumber() / (100 * 100)
ZSTD_version == 1

\* R__unzipZSTD: the target buffer and *irep it leaves.  The capacity it
\* gives ZSTD_decompress is the content size of whatever the target buffer
\* holds; `fits` is whether the library then gets through when told of a
\* capacity beyond the buffer
R__unzipZSTD(srcsize, src, tgtsize, tgt, fits) ==
    IF src[1] # 90 \/ src[2] # 83 THEN [tgt |-> tgt, irep |-> 0]
    ELSE IF src[3] # ZSTD_version THEN [tgt |-> tgt, irep |-> 0]
    ELSE LET rSize == ZSTD_getFrameContentSize(tgt, tgtsize)
             d == ZSTD_decompress(rSize, SubSeq(src, kROOTHeaderSize + 1, srcsize))
         IN  IF d.size = ZSTD_ERROR \/ (rSize > tgtsize /\ ~fits)
             THEN [tgt |-> tgt, irep |-> 0]
             ELSE [tgt |-> Overwrite(tgt, d.bytes), irep |-> d.size]

\* the size of the caller's buffers
ZstdRoom == 32

\* what the output buffer may hold before the call: zeros, the frame of
\* an earlier, shorter or longer buffer, a skippable frame
ZstdLeftovers ==
    {Zeros(ZstdRoom),
     Overwrite(Zeros(ZstdRoom), ZstdFrame(<<97>>)),
     Overwrite(Zeros(ZstdRoom), ZstdFrame(Pattern(2, MaxLen + 1))),
     Overwrite(Zeros(ZstdRoom), ZSTD_MAGIC_SKIPPABLE)}

ZstdOp(name, fits) == [name |-> name, fits |-> fits]

InitZstd ==
    /\ \E S \in Strings(MaxLen), L \in ZstdLeftovers :
          strm = [src |-> S, zip |-> Zeros(ZstdRoom), zrep |-> 0,
                  out |-> L, irep |-> 0]
    /\ twin = strm
    /\ op = ZstdOp("init", TRUE)
    /\ calls = 0

Zip ==
    /\ op.name = "init"
    /\ LET r == R__zipZSTD(Len(strm.src), strm.src, ZstdRoom, strm.zip)
       IN  strm' = [strm EXCEPT !.zip = r.tgt, !.zrep = r.irep]
    /\ twin' = strm
    /\ op' = ZstdOp("zip", TRUE)
    /\ calls' = calls + 1

Unzip ==
    /\ op.name = "zip"
    /\ strm.zrep > 0
    /\ \E fits \in BOOLEAN :
          /\ LET r == R__unzipZSTD(strm.zrep, strm.zip, ZstdRoom, strm.out, fits)
             IN  strm' = [strm EXCEPT !.out = r.tgt, !.irep = r.irep]
          /\ op' = ZstdOp("unzip", fits)
    /\ twin' = strm
    /\ calls' = calls + 1

NextZstd == Zip \/ Unzip

SpecZstd == InitZstd /\ [][NextZstd]_vars

\* the output buffer begins with the source and *irep is its length
RoundTrip ==
    /\ strm.irep = Len(strm.src)
    /\ Take(strm.out, Len(strm.src)) = strm.src

\* C39: R__unzipZSTD, given what R__zipZSTD made of n bytes, writes those
\* n bytes and sets *irep = n, whatever the output buffer held before
C39_ZstdRoundTrip ==
    op.name = "unzip" => RoundTrip

\* the round trip when the output buffer held the frame of at least as
\* many bytes
RoundTripOverLargerFrame ==
    (op.name = "unzip"
        /\ ZSTD_getFrameContentSize(twin.out, ZstdRoom) \in Len(strm.src)..ZstdRoom)
        => RoundTrip

(* ------------------------------------------------------------------ *)
(* Every level and strategy that creation and setParams take, and the *)
(* tokenizer deflate() runs under each.                               *)
(* ------------------------------------------------------------------ *)
Z_DEFAULT_COMPRESSION == 0 - 1

\* deflateInit2_(), deflateParams(): the default level stands for level 6
DefaultLevel(level) == IF level = Z_DEFAULT_COMPRESSION THEN 6 ELSE level

\* the levels and strategies a caller may ask for: all that are accepted,
\* and one beyond each end of the range
SelectLevels == Z_DEFAULT_COMPRESSION..10
SelectStrategies == Z_DEFAULT_STRATEGY..(Z_FIXED + 1)

\* what creation accepts
Accepted(level, strategy) ==
    /\ DefaultLevel(level) \in 0..9
    /\ strategy \in 0..Z_FIXED

SelectInputs == {Pattern(2, MaxPat), AbRun(3)}

MaxSelectCalls == 2

InitSelect ==
    /\ \E S \in SelectInputs, level \in SelectLevels, strategy \in SelectStrategies :
          /\ Accepted(level, strategy)
          /\ strm = Fresh(0, S, Setup(DefaultLevel(level), strategy, -9, 5, TRUE))
    /\ twin = strm
    /\ op = NoOp
    /\ calls = 0

\* setParams before any input, accepted or refused
SelectParams ==
    /\ calls = 0
    /\ \E level \in SelectLevels, strategy \in SelectStrategies :
          /\ strm' = EndCall(deflateParams([strm EXCEPT !.avail_out = Ample],
                                            DefaultLevel(level), strategy))
          /\ op' = OpOf("params", strm, strm', Z_BLOCK, Ample)
    /\ twin' = strm
    /\ calls' = calls + 1

SelectProcess ==
    /\ calls < MaxSelectCalls
    /\ strm.status # "FINISH"
    /\ \E flush \in {Z_SYNC_FLUSH, Z_FINISH} :
          Process(flush, Remaining(strm), Ample)
    /\ twin' = strm
    /\ calls' = calls + 1

NextSelect == SelectParams \/ SelectProcess

SpecSelect == InitSelect /\ [][NextSelect]_vars

\* the tokenizers deflate() chooses among
Tokenizers ==
    {"deflate_stored", "deflate_fast", "deflate_slow", "deflate_rle", "deflate_huff"}

\* some setting that setParams accepts makes deflate() run deflate_quick
QuickUnder(z) ==
    \E level \in SelectLevels, strategy \in SelectStrategies :
        LET y == deflateParams([z EXCEPT !.avail_out = Ample],
                               DefaultLevel(level), strategy)
        IN  y.ret = Z_OK /\ Tokenizer(y) = "deflate_quick"

\* C40: the quick tokenizer is selectable: from a created context, at
\* least one (level, strategy) setting that create or setParams accepts
\* makes process run the quick tokenizer and not the stored, fast, lazy,
\* RLE or literals-only one
C40_QuickSelectable ==
    (strm.status # "FINISH" /\ strm.total_in = 0)
        => Tokenizer(strm) = "deflate_quick" \/ QuickUnder(strm)

\* under every accepted setting the tokenizer that ran is one of the
\* other five
NeverQuick ==
    (op.name = "process" /\ op.emitted > 0) => Tokenizer(strm) \in Tokenizers

\* setParams refuses exactly the settings outside the ranges
RefusesOutside ==
    op.name = "params"
        => \/ strm.ret = Z_OK /\ strm.level \in 0..9 /\ strm.strategy \in 0..Z_FIXED
           \/ strm.ret = Z_STREAM_ERROR /\ strm.level = twin.level
              /\ strm.strategy = twin.strategy

====
